---- MODULE Spec2Model ----
(***************************************************************************)
(* allium-check: the checker pipeline of juxt/allium                       *)
(*   cli.ts  ->  lexer.ts -> parser.ts -> symbols.ts ->                    *)
(*               checks/references.ts -> checks/enums.ts                  *)
(* Source text, lexemes and names are TLA+ strings; a character is a      *)
(* string of length one.  Positions (pos) are 0-based as in the code.     *)
(***************************************************************************)
EXTENDS Integers, Sequences, FiniteSets, TLC

VARIABLES
    pc,          \* position of the run: start, lex, parse, symbols, refs, enums, report, exit
    readOk,      \* whether readFileSync(file) succeeds
    source,      \* the text read from the file
    pos,         \* lexer cursor (0-based index into source)
    line,        \* lexer line counter
    col,         \* lexer column counter
    tokens,      \* tokens pushed so far
    cursor,      \* Parser.pos (0-based index into tokens)
    ast,         \* ParseResult
    symbols,     \* SymbolTable
    boundVars,   \* ReferenceChecker.boundVars (insertion ordered)
    refIdx,      \* number of items of checkReferences already walked
    refDiags,    \* diagnostics array of checkReferences
    visits,      \* trace of the identifier expressions the reference checker examined
    enumDiags,   \* diagnostics array of checkEnums
    diagnostics, \* value returned by check
    stderr,      \* lines written with console.error
    exitCode,    \* process exit code (-1 while running)
    calls,       \* the functions the run has called so far
    simName,     \* argument name of a direct findSimilar call
    simCands,    \* argument candidates of a direct findSimilar call
    simResult,   \* its result
    refExpr,     \* argument expr of a direct checkExprInContext call
    refSkip,     \* argument skipEnumLikeIdents of that call
    refBefore    \* boundVars when that call was made

vars == <<pc, readOk, source, pos, line, col, tokens, cursor, ast, symbols, boundVars,
          refIdx, refDiags, visits, enumDiags, diagnostics, stderr, exitCode,
          calls, simName, simCands, simResult, refExpr, refSkip, refBefore>>

lexVars == <<pos, line, col, tokens>>
simVars == <<simName, simCands, simResult>>
refVars == <<refExpr, refSkip, refBefore>>

(***************************************************************************)
(* Characters                                                              *)
(***************************************************************************)
LowerChars == "abcdefghijklmnopqrstuvwxyz"
UpperChars == "ABCDEFGHIJKLMNOPQRSTUVWXYZ"

CharsOf(s) == { SubSeq(s, i, i) : i \in 1..Len(s) }

LowerSet == CharsOf(LowerChars)
UpperSet == CharsOf(UpperChars)
DigitSet == CharsOf("0123456789")
PunctSet == CharsOf("{}()[]:,|?.+-*/")

\* /[a-zA-Z_]/
IsIdentStart(c) == c \in LowerSet \cup UpperSet \cup {"_"}
\* /[a-zA-Z0-9_]/
IsIdentPart(c) == c \in LowerSet \cup UpperSet \cup DigitSet \cup {"_"}
\* /[0-9.]/
IsNumberPart(c) == c \in DigitSet \cup {"."}

\* source[i] for a 0-based i, '' when out of range (the `?? ''` of peek)
CharAt(s, i) == IF i >= 0 /\ i < Len(s) THEN SubSeq(s, i + 1, i + 1) ELSE ""

(***************************************************************************)
(* Lexer (lexer.ts)                                                        *)
(***************************************************************************)
KEYWORDS ==
    {"entity", "external", "value", "rule", "when", "let", "requires", "ensures",
     "default", "deferred", "open", "question", "for", "this", "with", "becomes",
     "created", "config", "now", "and", "or", "not", "in", "true", "false", "null"}

Loc(l, c) == [line |-> l, col |-> c]
Token(t, v, l) == [type |-> t, value |-> v, loc |-> l]

\* the cursor of the lexer: pos, line, col
Cursor(p, l, c) == [pos |-> p, line |-> l, col |-> c]

\* advance with a fault: a newline increments the line and leaves the column
advanceNoReset(src, L) ==
    IF CharAt(src, L.pos) = "\n"
    THEN Cursor(L.pos + 1, L.line + 1, L.col)
    ELSE Cursor(L.pos + 1, L.line, L.col + 1)

\* advance(): the cursor after consuming source[pos]; past the end of the
\* text source[pos] is undefined, which is not a newline, so col is incremented
advance(src, L) ==
    IF CharAt(src, L.pos) = "\n"
    THEN Cursor(L.pos + 1, L.line + 1, 1)
    ELSE Cursor(L.pos + 1, L.line, L.col + 1)

\* the value advance() returns, as it appears once appended to a string
advanced(src, L) == IF L.pos < Len(src) THEN CharAt(src, L.pos) ELSE "undefined"

RECURSIVE skipComment(_, _)
skipComment(src, L) ==
    IF L.pos < Len(src) /\ CharAt(src, L.pos) # "\n"
    THEN skipComment(src, advance(src, L))
    ELSE L

RECURSIVE skipWhitespace(_, _)
skipWhitespace(src, L) ==
    IF L.pos < Len(src)
    THEN LET ch == CharAt(src, L.pos) IN
         IF ch = " " \/ ch = "\t" \/ ch = "\r" THEN skipWhitespace(src, advance(src, L))
         ELSE IF ch = "\n" THEN skipWhitespace(src, advance(src, L))
         ELSE IF ch = "-" /\ CharAt(src, L.pos + 1) = "-"
              THEN skipWhitespace(src, skipComment(src, L))
         ELSE L
    ELSE L

\* readIdent / readNumber / readString return the text read and the cursor
RECURSIVE readIdent(_, _, _)
readIdent(src, L, ident) ==
    IF L.pos < Len(src) /\ IsIdentPart(CharAt(src, L.pos))
    THEN readIdent(src, advance(src, L), ident \o advanced(src, L))
    ELSE [text |-> ident, cur |-> L]

RECURSIVE readNumber(_, _, _)
readNumber(src, L, num) ==
    IF L.pos < Len(src) /\ IsNumberPart(CharAt(src, L.pos))
    THEN readNumber(src, advance(src, L), num \o advanced(src, L))
    ELSE [text |-> num, cur |-> L]

RECURSIVE readStringBody(_, _, _, _)
readStringBody(src, L, quote, str) ==
    IF L.pos < Len(src) /\ CharAt(src, L.pos) # quote
    THEN IF CharAt(src, L.pos) = "\\"
         THEN LET L1 == advance(src, L) IN
              readStringBody(src, advance(src, L1), quote, str \o advanced(src, L1))
         ELSE readStringBody(src, advance(src, L), quote, str \o advanced(src, L))
    ELSE [text |-> str, cur |-> L]

readString(src, L) ==
    LET quote == CharAt(src, L.pos)
        body  == readStringBody(src, advance(src, L), quote, "")
    IN  [text |-> body.text, cur |-> advance(src, body.cur)]  \* consume closing quote

\* one iteration of the main loop of lex, entered with pos < source.length:
\* the cursor afterwards and the tokens pushed (none or one)
lexIteration(src, L0) ==
    LET L        == skipWhitespace(src, L0)
        startLoc == Loc(L.line, L.col)
        ch       == CharAt(src, L.pos)
        ch1      == CharAt(src, L.pos + 1)
        one      == advance(src, L)
        two      == advance(src, one)
    IN  IF L.pos >= Len(src) THEN [cur |-> L, toks |-> <<>>]
        ELSE IF ch \in PunctSet THEN [cur |-> one, toks |-> <<Token(ch, ch, startLoc)>>]
        ELSE IF ch = "=" /\ ch1 = ">" THEN [cur |-> two, toks |-> <<Token("=>", "=>", startLoc)>>]
        ELSE IF ch = "!" /\ ch1 = "=" THEN [cur |-> two, toks |-> <<Token("!=", "!=", startLoc)>>]
        ELSE IF ch = "<" /\ ch1 = "=" THEN [cur |-> two, toks |-> <<Token("<=", "<=", startLoc)>>]
        ELSE IF ch = ">" /\ ch1 = "=" THEN [cur |-> two, toks |-> <<Token(">=", ">=", startLoc)>>]
        ELSE IF ch = "<" THEN [cur |-> one, toks |-> <<Token("<", "<", startLoc)>>]
        ELSE IF ch = ">" THEN [cur |-> one, toks |-> <<Token(">", ">", startLoc)>>]
        ELSE IF ch = "=" THEN [cur |-> one, toks |-> <<Token("=", "=", startLoc)>>]
        ELSE IF IsIdentStart(ch)
             THEN LET r == readIdent(src, L, "") IN
                  [cur |-> r.cur,
                   toks |-> <<Token(IF r.text \in KEYWORDS THEN r.text ELSE "ident", r.text, startLoc)>>]
        ELSE IF ch \in DigitSet
             THEN LET r == readNumber(src, L, "") IN
                  [cur |-> r.cur, toks |-> <<Token("number", r.text, startLoc)>>]
        ELSE IF ch = "\"" \/ ch = "'"
             THEN LET r == readString(src, L) IN
                  [cur |-> r.cur, toks |-> <<Token("string", r.text, startLoc)>>]
        ELSE [cur |-> one, toks |-> <<>>]   \* unknown character - skip it

(***************************************************************************)
(* Parser (parser.ts).  The cursor `pos` of the class is threaded through  *)
(* the operators: each takes the token array T and the cursor p and        *)
(* returns Ok(cursor, node), or Err(cursor, message) where the code throws *)
(* this.error(message); a caller passes an Err on unchanged, as an         *)
(* exception propagates.                                                   *)
(***************************************************************************)
Ok(p, v)    == [ok |-> TRUE,  pos |-> p, val |-> v,  msg |-> ""]
Err(p, m)   == [ok |-> FALSE, pos |-> p, val |-> <<>>, msg |-> m]

\* the statements K that follow a call r: they run with its result, unless it threw
Bind(r, K(_)) == IF r.ok THEN K(r) ELSE r

\* this.tokens[this.pos + offset] ?? this.tokens[this.tokens.length - 1]
peek(T, p, offset) == IF p + offset < Len(T) THEN T[p + offset + 1] ELSE T[Len(T)]

at(T, p, type) == peek(T, p, 0).type = type

atAny(T, p, types) == peek(T, p, 0).type \in types

\* expect(type): the token consumed, or the error
expect(T, p, type) ==
    IF ~at(T, p, type)
    THEN Err(p, "expected '" \o type \o "', got '" \o peek(T, p, 0).type \o "'")
    ELSE Ok(p + 1, T[p + 1])

\* Parser.error: the diagnostic is located at the token under the cursor
ParseDiagnostic(T, filename, e) ==
    [file |-> filename, line |-> peek(T, e.pos, 0).loc.line, col |-> peek(T, e.pos, 0).loc.col,
     message |-> e.msg, suggestion |-> <<>>]

Ident(name, loc) == [kind |-> "ident", name |-> name, loc |-> loc]
Binary(op, left, right, loc) == [kind |-> "binary", op |-> op, left |-> left, right |-> right, loc |-> loc]

ComparisonOps == {"=", "!=", "<", "<=", ">", ">=", "in", "with"}

RECURSIVE parseExpr(_, _), parseOrLoop(_, _, _), parseAnd(_, _), parseAndLoop(_, _, _)
RECURSIVE parseComparison(_, _), parseComparisonLoop(_, _, _)
RECURSIVE parseAdditive(_, _), parseAdditiveLoop(_, _, _)
RECURSIVE parseMultiplicative(_, _), parseMultiplicativeLoop(_, _, _)
RECURSIVE parseUnary(_, _), parsePostfix(_, _), parsePostfixLoop(_, _, _), parsePrimary(_, _)
RECURSIVE parseArgs(_, _, _, _), parseKeys(_, _, _), parseCreatedFields(_, _, _)
RECURSIVE parseCall(_, _, _, _)

\* the end of an iteration of a list loop: if (!at(close)) expect(',')
expectComma(T, p, close) == IF ~at(T, p, close) THEN expect(T, p, ",") ELSE Ok(p, <<>>)

\* while (!at(close) && !at('eof')) { args.push(parseExpr()); if (!at(close)) expect(',') }
parseArgs(T, p, close, args) ==
    IF ~at(T, p, close) /\ ~at(T, p, "eof")
    THEN Bind(parseExpr(T, p), LAMBDA a :
         Bind(expectComma(T, a.pos, close), LAMBDA c :
           parseArgs(T, c.pos, close, Append(args, a.val))))
    ELSE Ok(p, args)

\* left = operand(); while (at(op)) { op = advance(); right = operand();
\*                                   left = binary(op, left, right) }
\* The loop operators below parse one operand per step; `pending` holds the
\* left operand and the operator already consumed, and is <<>> before the first.
Pending(op, left, loc) == <<[op |-> op, left |-> left, loc |-> loc]>>

Combine(pending, right) ==
    IF pending = <<>> THEN right
    ELSE Binary(pending[1].op, pending[1].left, right, pending[1].loc)

parseOr(T, p) == parseOrLoop(T, p, <<>>)

parseOrLoop(T, p, pending) ==
    Bind(parseAnd(T, p), LAMBDA r :
      IF at(T, r.pos, "or")
      THEN parseOrLoop(T, r.pos + 1,
               Pending("or", Combine(pending, r.val), peek(T, r.pos, 0).loc))
      ELSE Ok(r.pos, Combine(pending, r.val)))

parseExpr(T, p) == parseOr(T, p)

parseAnd(T, p) == parseAndLoop(T, p, <<>>)

\* the loop of parseAnd taking `or` as well as `and`
parseAndLoopWithOr(T, p, pending) ==
    Bind(parseComparison(T, p), LAMBDA r :
      IF atAny(T, r.pos, {"and", "or"})
      THEN parseAndLoop(T, r.pos + 1,
               Pending(peek(T, r.pos, 0).type, Combine(pending, r.val), peek(T, r.pos, 0).loc))
      ELSE Ok(r.pos, Combine(pending, r.val)))

parseAndLoop(T, p, pending) ==
    Bind(parseComparison(T, p), LAMBDA r :
      IF at(T, r.pos, "and")
      THEN parseAndLoop(T, r.pos + 1,
               Pending("and", Combine(pending, r.val), peek(T, r.pos, 0).loc))
      ELSE Ok(r.pos, Combine(pending, r.val)))

parseComparison(T, p) == parseComparisonLoop(T, p, <<>>)

parseComparisonLoop(T, p, pending) ==
    Bind(parseAdditive(T, p), LAMBDA r :
      IF atAny(T, r.pos, ComparisonOps)
      THEN parseComparisonLoop(T, r.pos + 1,
               Pending(peek(T, r.pos, 0).type, Combine(pending, r.val), peek(T, r.pos, 0).loc))
      ELSE Ok(r.pos, Combine(pending, r.val)))

parseAdditive(T, p) == parseAdditiveLoop(T, p, <<>>)

parseAdditiveLoop(T, p, pending) ==
    Bind(parseMultiplicative(T, p), LAMBDA r :
      IF atAny(T, r.pos, {"+", "-"})
      THEN parseAdditiveLoop(T, r.pos + 1,
               Pending(peek(T, r.pos, 0).type, Combine(pending, r.val), peek(T, r.pos, 0).loc))
      ELSE Ok(r.pos, Combine(pending, r.val)))

parseMultiplicative(T, p) == parseMultiplicativeLoop(T, p, <<>>)

parseMultiplicativeLoop(T, p, pending) ==
    Bind(parseUnary(T, p), LAMBDA r :
      IF atAny(T, r.pos, {"*", "/"})
      THEN parseMultiplicativeLoop(T, r.pos + 1,
               Pending(peek(T, r.pos, 0).type, Combine(pending, r.val), peek(T, r.pos, 0).loc))
      ELSE Ok(r.pos, Combine(pending, r.val)))

parseUnary(T, p) ==
    IF at(T, p, "not") \/ at(T, p, "-")
    THEN Bind(parseUnary(T, p + 1), LAMBDA o :
           Ok(o.pos, [kind |-> "unary", op |-> peek(T, p, 0).type, operand |-> o.val,
                      loc |-> peek(T, p, 0).loc]))
    ELSE parsePostfix(T, p)

\* the body of a join lookup: field [: value] {, field [: value]}
parseKeys(T, p, keys) ==
    IF ~at(T, p, "}") /\ ~at(T, p, "eof")
    THEN Bind(expect(T, p, "ident"), LAMBDA f :
           IF at(T, f.pos, ":")
           THEN Bind(parseExpr(T, f.pos + 1), LAMBDA v :
                Bind(expectComma(T, v.pos, "}"), LAMBDA c :
                  parseKeys(T, c.pos, Append(keys, [field |-> f.val.value, value |-> v.val]))))
           ELSE \* shorthand {user} means {user: user}
                Bind(expectComma(T, f.pos, "}"), LAMBDA c :
                  parseKeys(T, c.pos,
                      Append(keys, [field |-> f.val.value,
                                    value |-> Ident(f.val.value, peek(T, f.pos, 0).loc)]))))
    ELSE Ok(p, keys)

parsePostfix(T, p) == Bind(parsePrimary(T, p), LAMBDA e : parsePostfixLoop(T, e.pos, e.val))

\* (args) after the cursor at '(' + 1: the call node with the callee, and the loop again
parseCall(T, p, callee, loc) ==
    Bind(parseArgs(T, p, ")", <<>>), LAMBDA args :
    Bind(expect(T, args.pos, ")"), LAMBDA close :
      parsePostfixLoop(T, close.pos,
          [kind |-> "call", callee |-> callee, args |-> args.val, loc |-> loc])))

parsePostfixLoop(T, p, expr) ==
    IF at(T, p, ".")
    THEN Bind(expect(T, p + 1, "ident"), LAMBDA f :
           IF at(T, f.pos, "(")      \* method call: .any(x => ...)
           THEN parseCall(T, f.pos + 1,
                    [kind |-> "field-access", object |-> expr, field |-> f.val.value,
                     loc |-> peek(T, p, 0).loc],
                    peek(T, p, 0).loc)
           ELSE parsePostfixLoop(T, f.pos,
                    [kind |-> "field-access", object |-> expr, field |-> f.val.value,
                     loc |-> peek(T, p, 0).loc]))
    ELSE IF at(T, p, "(")
    THEN parseCall(T, p + 1, expr, peek(T, p, 0).loc)
    ELSE IF at(T, p, "{")
    THEN Bind(parseKeys(T, p + 1, <<>>), LAMBDA keys :
         Bind(expect(T, keys.pos, "}"), LAMBDA close :
           IF expr.kind = "ident"
           THEN parsePostfixLoop(T, close.pos,
                    [kind |-> "join-lookup", entity |-> expr.name, keys |-> keys.val,
                     loc |-> peek(T, p, 0).loc])
           ELSE Err(close.pos, "join lookup must be on entity name")))
    ELSE Ok(p, expr)

\* the initialisers of Entity.created( field: value {, field: value} )
parseCreatedFields(T, p, fields) ==
    IF ~at(T, p, ")") /\ ~at(T, p, "eof")
    THEN Bind(expect(T, p, "ident"), LAMBDA f :
         Bind(expect(T, f.pos, ":"), LAMBDA c1 :
         Bind(parseExpr(T, c1.pos), LAMBDA v :
         Bind(expectComma(T, v.pos, ")"), LAMBDA c :
           parseCreatedFields(T, c.pos,
               Append(fields, [field |-> f.val.value, value |-> v.val]))))))
    ELSE Ok(p, fields)

parsePrimary(T, p) ==
    IF at(T, p, "(")
    THEN Bind(parseExpr(T, p + 1), LAMBDA e :
         Bind(expect(T, e.pos, ")"), LAMBDA c : Ok(c.pos, e.val)))
    \* the numeric value parseFloat(lexeme) is read by no check and is not kept
    ELSE IF at(T, p, "number") THEN Ok(p + 1, [kind |-> "number", loc |-> peek(T, p, 0).loc])
    ELSE IF at(T, p, "string")
    THEN Ok(p + 1, [kind |-> "string", value |-> peek(T, p, 0).value, loc |-> peek(T, p, 0).loc])
    ELSE IF at(T, p, "true")
    THEN Ok(p + 1, [kind |-> "boolean", value |-> TRUE, loc |-> peek(T, p, 0).loc])
    ELSE IF at(T, p, "false")
    THEN Ok(p + 1, [kind |-> "boolean", value |-> FALSE, loc |-> peek(T, p, 0).loc])
    ELSE IF at(T, p, "null") THEN Ok(p + 1, [kind |-> "null", loc |-> peek(T, p, 0).loc])
    ELSE IF at(T, p, "now")  THEN Ok(p + 1, Ident("now", peek(T, p, 0).loc))
    ELSE IF at(T, p, "config")
    THEN Bind(expect(T, p + 1, "/"), LAMBDA s :
         Bind(expect(T, s.pos, "ident"), LAMBDA n :
           Ok(n.pos, Ident("config/" \o n.val.value, peek(T, p, 0).loc))))
    ELSE IF at(T, p, "ident")
    THEN IF at(T, p + 1, "=>")                 \* lambda: x => expr
         THEN Bind(parseExpr(T, p + 2), LAMBDA b :
                Ok(b.pos, [kind |-> "lambda", param |-> peek(T, p, 0).value, body |-> b.val,
                           loc |-> peek(T, p, 0).loc]))
         ELSE IF at(T, p + 1, ".") /\ peek(T, p + 1, 1).type = "created"   \* Entity.created(...)
         THEN Bind(expect(T, p + 3, "("), LAMBDA o :
              Bind(parseCreatedFields(T, o.pos, <<>>), LAMBDA fs :
              Bind(expect(T, fs.pos, ")"), LAMBDA c :
                Ok(c.pos, [kind |-> "entity-created", entity |-> peek(T, p, 0).value,
                           fields |-> fs.val, loc |-> peek(T, p, 0).loc]))))
         ELSE Ok(p + 1, Ident(peek(T, p, 0).value, peek(T, p, 0).loc))
    ELSE IF at(T, p, "[")                      \* array literal: call to __array
    THEN Bind(parseArgs(T, p + 1, "]", <<>>), LAMBDA args :
         Bind(expect(T, args.pos, "]"), LAMBDA c :
           Ok(c.pos, [kind |-> "call", callee |-> Ident("__array", peek(T, p, 0).loc),
                      args |-> args.val, loc |-> peek(T, p, 0).loc])))
    ELSE Err(p, "unexpected token: '" \o peek(T, p, 0).type \o "'")

PRIMITIVES == {"String", "Integer", "Decimal", "Boolean", "Timestamp", "Duration", "Email", "URL"}

identToType(name) ==
    IF name \in PRIMITIVES THEN [kind |-> "primitive", name |-> name]
    ELSE [kind |-> "entity-ref", name |-> name]

\* while (at('|')) { advance(); values.push(expect('ident').value) }
RECURSIVE parseEnumValues(_, _, _)
parseEnumValues(T, p, values) ==
    IF at(T, p, "|")
    THEN Bind(expect(T, p + 1, "ident"), LAMBDA v :
           parseEnumValues(T, v.pos, Append(values, v.val.value)))
    ELSE Ok(p, values)

RECURSIVE parseType(_, _)
parseType(T, p) ==
    IF at(T, p, "ident")
    THEN IF peek(T, p, 0).value = "Set" \/ peek(T, p, 0).value = "List"
         THEN Bind(expect(T, p + 1, "<"), LAMBDA o :
              Bind(parseType(T, o.pos), LAMBDA inner :
              Bind(expect(T, inner.pos, ">"), LAMBDA c :
                Ok(c.pos, [kind |-> IF peek(T, p, 0).value = "Set" THEN "set" ELSE "list",
                           inner |-> inner.val]))))
         ELSE IF at(T, p + 1, "|")
         THEN Bind(parseEnumValues(T, p + 1, <<peek(T, p, 0).value>>), LAMBDA vs :
                Ok(vs.pos, [kind |-> "enum", values |-> vs.val]))
         ELSE IF at(T, p + 1, "?")
         THEN Ok(p + 2, [kind |-> "optional", inner |-> identToType(peek(T, p, 0).value)])
         ELSE Ok(p + 1, identToType(peek(T, p, 0).value))
    ELSE Err(p, "expected type")

\* { kind: 'type', type: { kind: 'enum', values } } after name | ...
parseEnumMember(T, p) ==
    Bind(parseEnumValues(T, p + 1, <<peek(T, p, 0).value>>), LAMBDA vs :
      Ok(vs.pos, [kind |-> "type", type |-> [kind |-> "enum", values |-> vs.val]]))

\* { kind: 'expr', expr: this.parseExpr() }
parseExprMember(T, p) ==
    Bind(parseExpr(T, p), LAMBDA e : Ok(e.pos, [kind |-> "expr", expr |-> e.val]))

\* the member of an entity after `name :` that is neither relationship nor projection
parseTypeOrExpr(T, p) ==
    IF at(T, p, "ident")
    THEN IF (peek(T, p, 0).value = "Set" \/ peek(T, p, 0).value = "List") /\ peek(T, p, 1).type = "<"
         THEN Bind(expect(T, p + 1, "<"), LAMBDA o :
              Bind(parseType(T, o.pos), LAMBDA inner :
              Bind(expect(T, inner.pos, ">"), LAMBDA c :
                Ok(c.pos, [kind |-> "type",
                           type |-> [kind |-> IF peek(T, p, 0).value = "Set"
                                              THEN "set" ELSE "list",
                                     inner |-> inner.val]]))))
         ELSE IF peek(T, p, 1).type = "?"
         THEN Ok(p + 2, [kind |-> "type",
                         type |-> [kind |-> "optional",
                                   inner |-> [kind |-> "primitive", name |-> peek(T, p, 0).value]]])
         ELSE IF peek(T, p, 1).type \in {"}", "eof", "ident"}
         THEN IF at(T, p + 1, "|")
              THEN parseEnumMember(T, p)
              ELSE Ok(p + 1, [kind |-> "type", type |-> identToType(peek(T, p, 0).value)])
         ELSE IF peek(T, p, 1).type = "|"
         THEN parseEnumMember(T, p)
         ELSE parseExprMember(T, p)
    ELSE parseExprMember(T, p)

RECURSIVE parseFields(_, _, _)
parseFields(T, p, fields) ==
    IF ~at(T, p, "}") /\ ~at(T, p, "eof")
    THEN Bind(expect(T, p, "ident"), LAMBDA name :
         Bind(expect(T, name.pos, ":"), LAMBDA c :
         Bind(parseType(T, c.pos), LAMBDA type :
           parseFields(T, type.pos,
               Append(fields, [name |-> name.val.value, type |-> type.val,
                               loc |-> peek(T, p, 0).loc])))))
    ELSE Ok(p, fields)

parseExternalEntity(T, p) ==
    Bind(expect(T, p, "external"), LAMBDA k1 :
    Bind(expect(T, k1.pos, "entity"), LAMBDA k2 :
    Bind(expect(T, k2.pos, "ident"), LAMBDA name :
    Bind(expect(T, name.pos, "{"), LAMBDA o :
    Bind(parseFields(T, o.pos, <<>>), LAMBDA fields :
    Bind(expect(T, fields.pos, "}"), LAMBDA c :
      Ok(c.pos, [kind |-> "external", name |-> name.val.value, fields |-> fields.val,
                 loc |-> peek(T, p, 0).loc])))))))

parseValueType(T, p) ==
    Bind(expect(T, p, "value"), LAMBDA k1 :
    Bind(expect(T, k1.pos, "ident"), LAMBDA name :
    Bind(expect(T, name.pos, "{"), LAMBDA o :
    Bind(parseFields(T, o.pos, <<>>), LAMBDA fields :
    Bind(expect(T, fields.pos, "}"), LAMBDA c :
      Ok(c.pos, [kind |-> "value", name |-> name.val.value, fields |-> fields.val,
                 loc |-> peek(T, p, 0).loc]))))))

RECURSIVE parseEntityMembers(_, _, _)

\* the member after `name :` at q; memberLoc is the location of the name
parseEntityMember(T, q, ent, name, memberLoc) ==
    IF at(T, q, "ident") /\ peek(T, q, 1).type = "for"
    THEN \* relationship: sessions: Session for this user
         Bind(expect(T, q + 2, "this"), LAMBDA k3 :
         Bind(expect(T, k3.pos, "ident"), LAMBDA cond :
           parseEntityMembers(T, cond.pos,
               [ent EXCEPT !.relationships = Append(@,
                   [name |-> name, target |-> peek(T, q, 0).value,
                    condition |-> cond.val.value, loc |-> memberLoc])])))
    ELSE IF at(T, q, "ident") /\ peek(T, q, 1).type = "with"
    THEN \* projection: active_sessions: sessions with status = active
         Bind(parseExpr(T, q + 2), LAMBDA filt :
           parseEntityMembers(T, filt.pos,
               [ent EXCEPT !.projections = Append(@,
                   [name |-> name, source |-> peek(T, q, 0).value,
                    filter |-> filt.val, loc |-> memberLoc])]))
    ELSE \* field or derived value
         Bind(parseTypeOrExpr(T, q), LAMBDA te :
           IF te.val.kind = "type"
           THEN parseEntityMembers(T, te.pos,
                    [ent EXCEPT !.fields = Append(@,
                        [name |-> name, type |-> te.val.type, loc |-> memberLoc])])
           ELSE parseEntityMembers(T, te.pos,
                    [ent EXCEPT !.derived = Append(@,
                        [name |-> name, expr |-> te.val.expr, loc |-> memberLoc])]))

\* the member loop of parseEntity; ent accumulates the four member arrays
parseEntityMembers(T, p, ent) ==
    IF ~at(T, p, "}") /\ ~at(T, p, "eof")
    THEN Bind(expect(T, p, "ident"), LAMBDA name :
         Bind(expect(T, name.pos, ":"), LAMBDA c :
           parseEntityMember(T, c.pos, ent, name.val.value, peek(T, p, 0).loc)))
    ELSE Ok(p, ent)

parseEntity(T, p) ==
    Bind(expect(T, p, "entity"), LAMBDA k1 :
    Bind(expect(T, k1.pos, "ident"), LAMBDA name :
    Bind(expect(T, name.pos, "{"), LAMBDA o :
    Bind(parseEntityMembers(T, o.pos,
             [kind |-> "entity", name |-> name.val.value, fields |-> <<>>,
              relationships |-> <<>>, projections |-> <<>>, derived |-> <<>>,
              loc |-> peek(T, p, 0).loc]), LAMBDA ms :
    Bind(expect(T, ms.pos, "}"), LAMBDA c :
      Ok(c.pos, ms.val))))))

parseDefault(T, p) ==
    Bind(expect(T, p, "default"), LAMBDA k1 :
    Bind(expect(T, k1.pos, "ident"), LAMBDA name :
    Bind(expect(T, name.pos, "="), LAMBDA eq :
    Bind(parseExpr(T, eq.pos), LAMBDA value :
      Ok(value.pos, [name |-> name.val.value, value |-> value.val,
                     loc |-> peek(T, p, 0).loc])))))

RECURSIVE exprContainsNow(_)
exprContainsNow(expr) ==
    IF expr.kind = "ident" /\ expr.name = "now" THEN TRUE
    ELSE IF expr.kind = "binary" THEN exprContainsNow(expr.left) \/ exprContainsNow(expr.right)
    ELSE IF expr.kind = "field-access" THEN exprContainsNow(expr.object)
    ELSE FALSE

\* the parameter loop of a stimulus trigger: ident [?] {, ident [?]}
RECURSIVE parseParams(_, _, _)
parseParams(T, p, params) ==
    IF ~at(T, p, ")") /\ ~at(T, p, "eof")
    THEN Bind(expect(T, p, "ident"), LAMBDA name :
         \* if (optional) advance()
         Bind(expectComma(T, IF at(T, name.pos, "?") THEN name.pos + 1 ELSE name.pos, ")"),
              LAMBDA c :
           parseParams(T, c.pos,
               Append(params, [name |-> name.val.value, optional |-> at(T, name.pos, "?"),
                               loc |-> peek(T, p, 0).loc]))))
    ELSE Ok(p, params)

parseTrigger(T, p) ==
    IF at(T, p, "ident") /\ peek(T, p, 1).type = ":"
    THEN \* binding: "interview: Interview.status becomes scheduled"
         Bind(expect(T, p + 2, "ident"), LAMBDA entity :
           IF at(T, entity.pos, ".")
           THEN IF at(T, entity.pos + 1, "created")
                THEN Ok(entity.pos + 2,
                        [kind |-> "created", binding |-> peek(T, p, 0).value,
                         entity |-> entity.val.value, loc |-> peek(T, p, 0).loc])
                ELSE Bind(expect(T, entity.pos + 1, "ident"), LAMBDA field :
                     Bind(expect(T, field.pos, "becomes"), LAMBDA bec :
                     Bind(parseExpr(T, bec.pos), LAMBDA value :
                       Ok(value.pos,
                          [kind |-> "state-change", binding |-> peek(T, p, 0).value,
                           entity |-> entity.val.value, field |-> field.val.value,
                           value |-> value.val, loc |-> peek(T, p, 0).loc]))))
           ELSE Err(entity.pos, "expected \".\" after entity name in trigger"))
    ELSE IF at(T, p, "ident") /\ peek(T, p, 1).type = "("
    THEN \* external stimulus: "UserLogsIn(email, password)"
         Bind(parseParams(T, p + 2, <<>>), LAMBDA params :
         Bind(expect(T, params.pos, ")"), LAMBDA c :
           Ok(c.pos, [kind |-> "stimulus", name |-> peek(T, p, 0).value,
                      params |-> params.val, loc |-> peek(T, p, 0).loc])))
    ELSE \* temporal or derived: expression
         Bind(parseExpr(T, p), LAMBDA e :
           \* heuristic: a comparison with `now` is temporal
           IF /\ e.val.kind = "binary"
              /\ e.val.op \in {"<=", "<", ">=", ">"}
              /\ exprContainsNow(e.val)
           THEN Ok(e.pos, [kind |-> "temporal", expr |-> e.val, loc |-> peek(T, p, 0).loc])
           ELSE Ok(e.pos, [kind |-> "derived", expr |-> e.val, loc |-> peek(T, p, 0).loc]))

parseLetBinding(T, p) ==
    Bind(expect(T, p, "let"), LAMBDA k1 :
    Bind(expect(T, k1.pos, "ident"), LAMBDA name :
    Bind(expect(T, name.pos, "="), LAMBDA eq :
    Bind(parseExpr(T, eq.pos), LAMBDA expr :
      Ok(expr.pos, [name |-> name.val.value, expr |-> expr.val,
                    loc |-> peek(T, p, 0).loc])))))

RECURSIVE parseRuleBody(_, _, _)

\* the clause loop keeping the first trigger of the rule: of a `when` clause
\* after the first the trigger is parsed and dropped
parseRuleBodyFirstWhen(T, p, rule) ==
    IF at(T, p, "when") /\ rule.trigger # <<>>
    THEN Bind(expect(T, p + 1, ":"), LAMBDA c :
         Bind(parseTrigger(T, c.pos), LAMBDA t : parseRuleBody(T, t.pos, rule)))
    ELSE IF at(T, p, "when")
    THEN Bind(expect(T, p + 1, ":"), LAMBDA c :
         Bind(parseTrigger(T, c.pos), LAMBDA t :
           parseRuleBody(T, t.pos, [rule EXCEPT !.trigger = <<t.val>>])))
    ELSE IF at(T, p, "let")
    THEN Bind(parseLetBinding(T, p), LAMBDA l :
           parseRuleBody(T, l.pos, [rule EXCEPT !.lets = Append(@, l.val)]))
    ELSE IF at(T, p, "requires")
    THEN Bind(expect(T, p + 1, ":"), LAMBDA c :
         Bind(parseExpr(T, c.pos), LAMBDA e :
           parseRuleBody(T, e.pos, [rule EXCEPT !.requires = Append(@, e.val)])))
    ELSE IF at(T, p, "ensures")
    THEN Bind(expect(T, p + 1, ":"), LAMBDA c :
         Bind(parseExpr(T, c.pos), LAMBDA e :
           parseRuleBody(T, e.pos, [rule EXCEPT !.ensures = Append(@, e.val)])))
    ELSE IF ~at(T, p, "}") /\ ~at(T, p, "eof")
    THEN Err(p, "unexpected token in rule: '" \o peek(T, p, 0).type \o "'")
    ELSE Ok(p, rule)

\* the clause loop of parseRule; rule.trigger is <<>> while `trigger` is null
parseRuleBody(T, p, rule) ==
    IF ~at(T, p, "}") /\ ~at(T, p, "eof")
    THEN IF at(T, p, "when")
         THEN Bind(expect(T, p + 1, ":"), LAMBDA c :
              Bind(parseTrigger(T, c.pos), LAMBDA t :
                parseRuleBody(T, t.pos, [rule EXCEPT !.trigger = <<t.val>>])))
         ELSE IF at(T, p, "let")
         THEN Bind(parseLetBinding(T, p), LAMBDA l :
                parseRuleBody(T, l.pos, [rule EXCEPT !.lets = Append(@, l.val)]))
         ELSE IF at(T, p, "requires") \/ at(T, p, "ensures")
         THEN Bind(expect(T, p + 1, ":"), LAMBDA c :
              Bind(parseExpr(T, c.pos), LAMBDA e :
                IF at(T, p, "requires")
                THEN parseRuleBody(T, e.pos, [rule EXCEPT !.requires = Append(@, e.val)])
                ELSE parseRuleBody(T, e.pos, [rule EXCEPT !.ensures = Append(@, e.val)])))
         ELSE Err(p, "unexpected token in rule: '" \o peek(T, p, 0).type \o "'")
    ELSE Ok(p, rule)

parseRule(T, p) ==
    Bind(expect(T, p, "rule"), LAMBDA k1 :
    Bind(expect(T, k1.pos, "ident"), LAMBDA name :
    Bind(expect(T, name.pos, "{"), LAMBDA o :
    Bind(parseRuleBody(T, o.pos, [trigger |-> <<>>, lets |-> <<>>, requires |-> <<>>,
                                  ensures |-> <<>>]), LAMBDA body :
    Bind(expect(T, body.pos, "}"), LAMBDA c :
      IF body.val.trigger = <<>>
      THEN Err(c.pos, "rule '" \o name.val.value \o "' has no trigger")
      ELSE Ok(c.pos, [name |-> name.val.value, trigger |-> body.val.trigger[1],
                      lets |-> body.val.lets, requires |-> body.val.requires,
                      ensures |-> body.val.ensures, loc |-> peek(T, p, 0).loc]))))))

\* String.prototype.trim for the white space the lexer can leave in a lexeme
WhiteSpace == {" ", "\t", "\r", "\n"}

RECURSIVE trim(_)
trim(s) ==
    IF Len(s) > 0 /\ SubSeq(s, 1, 1) \in WhiteSpace THEN trim(SubSeq(s, 2, Len(s)))
    ELSE IF Len(s) > 0 /\ SubSeq(s, Len(s), Len(s)) \in WhiteSpace THEN trim(SubSeq(s, 1, Len(s) - 1))
    ELSE s

TopLevelStart == {"external", "value", "entity", "default", "rule", "deferred", "open", "eof"}

\* while (!atAny(<top level keywords>, 'eof')) text += advance().value + ' '
RECURSIVE parseFreeText(_, _, _)
parseFreeText(T, p, text) ==
    IF ~atAny(T, p, TopLevelStart)
    THEN parseFreeText(T, p + 1, text \o peek(T, p, 0).value \o " ")
    ELSE Ok(p, text)

parseDeferred(T, p) ==
    Bind(expect(T, p, "deferred"), LAMBDA k1 :
    Bind(expect(T, k1.pos, "ident"), LAMBDA name :
    Bind(parseFreeText(T, name.pos, ""), LAMBDA text :
      Ok(text.pos, [name |-> name.val.value, description |-> trim(text.val),
                    loc |-> peek(T, p, 0).loc]))))

\* parseOpenQuestion with a fault: the token after `open` is consumed
\* whatever it is
parseOpenQuestionUnchecked(T, p) ==
    Bind(expect(T, p, "open"), LAMBDA k1 :
    Bind(parseFreeText(T, k1.pos + 1, ""), LAMBDA text :
      Ok(text.pos, [question |-> trim(text.val), loc |-> peek(T, p, 0).loc])))

parseOpenQuestion(T, p) ==
    Bind(expect(T, p, "open"), LAMBDA k1 :
    Bind(expect(T, k1.pos, "question"), LAMBDA k2 :
    Bind(parseFreeText(T, k2.pos, ""), LAMBDA text :
      Ok(text.pos, [question |-> trim(text.val), loc |-> peek(T, p, 0).loc]))))

EmptyFile ==
    [externals |-> <<>>, values |-> <<>>, entities |-> <<>>, defaults |-> <<>>,
     rules |-> <<>>, deferred |-> <<>>, openQuestions |-> <<>>]

\* one iteration of the loop of parseFile, entered when the cursor is not at
\* eof: the file with the declaration parsed pushed onto its collection
parseFileIteration(T, p, file) ==
    IF at(T, p, "external")
    THEN Bind(parseExternalEntity(T, p), LAMBDA r :
           Ok(r.pos, [file EXCEPT !.externals = Append(@, r.val)]))
    ELSE IF at(T, p, "value")
    THEN Bind(parseValueType(T, p), LAMBDA r :
           Ok(r.pos, [file EXCEPT !.values = Append(@, r.val)]))
    ELSE IF at(T, p, "entity")
    THEN Bind(parseEntity(T, p), LAMBDA r :
           Ok(r.pos, [file EXCEPT !.entities = Append(@, r.val)]))
    ELSE IF at(T, p, "default")
    THEN Bind(parseDefault(T, p), LAMBDA r :
           Ok(r.pos, [file EXCEPT !.defaults = Append(@, r.val)]))
    ELSE IF at(T, p, "rule")
    THEN Bind(parseRule(T, p), LAMBDA r :
           Ok(r.pos, [file EXCEPT !.rules = Append(@, r.val)]))
    ELSE IF at(T, p, "deferred")
    THEN Bind(parseDeferred(T, p), LAMBDA r :
           Ok(r.pos, [file EXCEPT !.deferred = Append(@, r.val)]))
    ELSE IF at(T, p, "open")
    THEN Bind(parseOpenQuestion(T, p), LAMBDA r :
           Ok(r.pos, [file EXCEPT !.openQuestions = Append(@, r.val)]))
    ELSE Err(p, "unexpected token '" \o peek(T, p, 0).type \o "'")

(***************************************************************************)
(* Symbol table (symbols.ts).  A JavaScript Map iterates in insertion      *)
(* order and set() on an existing key keeps its place: a Map is the        *)
(* sequence of its entries.                                                *)
(***************************************************************************)
EmptyMap == <<>>

MapHas(m, k) == \E i \in 1..Len(m) : m[i].key = k

MapIndex(m, k) == CHOOSE i \in 1..Len(m) : m[i].key = k

\* Map.get; only used on keys the map has
MapGet(m, k) == m[MapIndex(m, k)].value

\* Map.set with a fault: a key the map has keeps its value
MapSetIfAbsent(m, k, v) == IF MapHas(m, k) THEN m ELSE Append(m, [key |-> k, value |-> v])

MapSet(m, k, v) ==
    IF MapHas(m, k)
    THEN [m EXCEPT ![MapIndex(m, k)] = [key |-> k, value |-> v]]
    ELSE Append(m, [key |-> k, value |-> v])

MapKeys(m) == [i \in 1..Len(m) |-> m[i].key]

RECURSIVE buildFieldMap(_, _)
buildFieldMap(fields, map) ==
    IF fields = <<>> THEN map
    ELSE LET field == Head(fields)
             info  == [name |-> field.name, type |-> field.type,
                       \* enumValues is absent (<<>>) unless the type is an enum
                       enumValues |-> IF field.type.kind = "enum" THEN <<field.type.values>> ELSE <<>>]
         IN  buildFieldMap(Tail(fields), MapSet(map, field.name, info))

\* for (const x of items) map.set(x.name, x)
RECURSIVE indexByName(_, _)
indexByName(items, map) ==
    IF items = <<>> THEN map
    ELSE indexByName(Tail(items), MapSet(map, Head(items).name, Head(items)))

RECURSIVE relationshipMap(_, _)
relationshipMap(rels, map) ==
    IF rels = <<>> THEN map
    ELSE LET rel == Head(rels) IN
         relationshipMap(Tail(rels), MapSet(map, rel.name,
             [name |-> rel.name, target |-> rel.target, condition |-> rel.condition]))

RECURSIVE projectionMap(_, _)
projectionMap(projs, map) ==
    IF projs = <<>> THEN map
    ELSE LET proj == Head(projs) IN
         projectionMap(Tail(projs), MapSet(map, proj.name,
             [name |-> proj.name, source |-> proj.source, filter |-> proj.filter]))

RECURSIVE derivedMap(_, _)
derivedMap(ders, map) ==
    IF ders = <<>> THEN map
    ELSE LET der == Head(ders) IN
         derivedMap(Tail(ders), MapSet(map, der.name, [name |-> der.name, expr |-> der.expr]))

\* the TypeInfo of one declaration (external entity, value type or entity)
typeInfoOf(decl) ==
    [kind |-> decl.kind, name |-> decl.name,
     fields |-> buildFieldMap(decl.fields, EmptyMap),
     relationships |-> IF decl.kind = "entity" THEN relationshipMap(decl.relationships, EmptyMap)
                       ELSE EmptyMap,
     projections |-> IF decl.kind = "entity" THEN projectionMap(decl.projections, EmptyMap)
                     ELSE EmptyMap,
     derived |-> IF decl.kind = "entity" THEN derivedMap(decl.derived, EmptyMap) ELSE EmptyMap,
     node |-> decl]

RECURSIVE addTypes(_, _)
addTypes(decls, types) ==
    IF decls = <<>> THEN types
    ELSE addTypes(Tail(decls), MapSet(types, Head(decls).name, typeInfoOf(Head(decls))))

\* externals first, then value types, then entities
buildSymbols(file) ==
    [types    |-> addTypes(file.entities, addTypes(file.values, addTypes(file.externals, EmptyMap))),
     defaults |-> indexByName(file.defaults, EmptyMap),
     rules    |-> indexByName(file.rules, EmptyMap)]

RECURSIVE tagMembers(_, _, _)
tagMembers(names, tag, members) ==
    IF names = <<>> THEN members
    ELSE tagMembers(Tail(names), tag, MapSet(members, Head(names), tag))

getAllMembers(typeInfo) ==
    tagMembers(MapKeys(typeInfo.derived), "derived",
      tagMembers(MapKeys(typeInfo.projections), "projection",
        tagMembers(MapKeys(typeInfo.relationships), "relationship",
          tagMembers(MapKeys(typeInfo.fields), "field", EmptyMap))))

\* String.prototype.toLowerCase on the letters A-Z
LowerOf(c) ==
    IF c \in UpperSet
    THEN LET i == CHOOSE k \in 1..26 : SubSeq(UpperChars, k, k) = c IN SubSeq(LowerChars, i, i)
    ELSE c

RECURSIVE toLowerCase(_)
toLowerCase(s) == IF s = "" THEN "" ELSE LowerOf(SubSeq(s, 1, 1)) \o toLowerCase(SubSeq(s, 2, Len(s)))

Min3(x, y, z) == IF x <= y /\ x <= z THEN x ELSE IF y <= z THEN y ELSE z

\* row i of the matrix dp, filled for j = 1..n from the previous row (0-based columns)
RECURSIVE levRow(_, _, _, _, _)
levRow(a, b, i, prev, cur) ==
    LET j == Len(cur) IN
    IF j > Len(b) THEN cur
    ELSE levRow(a, b, i, prev,
           Append(cur, IF SubSeq(a, i, i) = SubSeq(b, j, j)
                       THEN prev[j]
                       ELSE 1 + Min3(prev[j + 1], cur[j], prev[j])))

RECURSIVE levRows(_, _, _, _)
levRows(a, b, i, prev) ==
    IF i > Len(a) THEN prev ELSE levRows(a, b, i + 1, levRow(a, b, i, prev, <<i>>))

\* dp[m][n]
levenshtein(a, b) == levRows(a, b, 1, [j \in 1..(Len(b) + 1) |-> j - 1])[Len(b) + 1]

\* the loop of findSimilar over the candidates; best is <<>> while undefined
RECURSIVE findSimilarLoop(_, _, _, _)
findSimilarLoop(name, candidates, best, bestDist) ==
    IF candidates = <<>> THEN best
    ELSE LET candidate == Head(candidates)
             dist      == levenshtein(toLowerCase(name), toLowerCase(candidate))
         IN  IF dist < bestDist
             THEN findSimilarLoop(name, Tail(candidates), <<candidate>>, dist)
             ELSE findSimilarLoop(name, Tail(candidates), best, bestDist)

\* findSimilar with the default maxDistance = 2 (no caller passes another)
MaxDistance == 2

\* findSimilar with a fault: bestDist starts one too high
findSimilarLoose(name, candidates) == findSimilarLoop(name, candidates, <<>>, MaxDistance + 2)

findSimilar(name, candidates) == findSimilarLoop(name, candidates, <<>>, MaxDistance + 1)

(***************************************************************************)
(* Reference checker (checks/references.ts).  K is the checker's fixed     *)
(* part (symbols, filename); C its mutable part: boundVars (a Set, kept in *)
(* insertion order), the diagnostics array, and a trace of the identifier *)
(* expressions examined with the bound set and flag they were examined    *)
(* under.  Each operator returns the C it leaves behind.                  *)
(***************************************************************************)
Diagnostic(filename, loc, message, suggestion) ==
    [file |-> filename, line |-> loc.line, col |-> loc.col, message |-> message,
     suggestion |-> suggestion]

\* ReferenceChecker.error / EnumChecker.error: push onto the diagnostics array
error(K, C, loc, message, suggestion) ==
    [C EXCEPT !.diags = Append(@, Diagnostic(K.filename, loc, message, suggestion))]

SeqHas(s, x) == \E i \in 1..Len(s) : s[i] = x

\* statement order: the statement that leaves C behind has run to completion
\* before the statements S that follow it start from C
Then(C, S(_)) == IF Len(C.diags) >= 0 THEN S(C) ELSE C

\* Set.delete with a fault: the element stays
SetDeleteNothing(s, x) == s

\* Set.add and Set.delete
SetAdd(s, x) == IF SeqHas(s, x) THEN s ELSE Append(s, x)
SetDelete(s, x) == SelectSeq(s, LAMBDA y : y # x)

RECURSIVE SetAddAll(_, _)
SetAddAll(s, xs) == IF xs = <<>> THEN s ELSE SetAddAll(SetAdd(s, Head(xs)), Tail(xs))

\* looksLikeEnumValue with a fault: /^[a-z]/
startsLowercase(name) == Len(name) >= 1 /\ SubSeq(name, 1, 1) \in LowerSet

\* /^[a-z][a-z_]*$/
looksLikeEnumValue(name) ==
    /\ Len(name) >= 1
    /\ SubSeq(name, 1, 1) \in LowerSet
    /\ \A i \in 2..Len(name) : SubSeq(name, i, i) \in LowerSet \cup {"_"}

Builtins == {"now", "true", "false", "null", "verify", "send", "notify", "__array"}

isBuiltin(name) ==
    \/ name \in Builtins
    \/ Len(name) >= 7 /\ SubSeq(name, 1, 7) = "config/"

\* the message and suggestion of an undefined entity/type name
undefinedName(K, C, what, name, loc) ==
    error(K, C, loc, "undefined " \o what \o " '" \o name \o "'",
          findSimilar(name, MapKeys(K.symbols.types)))

\* checkTypeRef with a fault: the name is looked up among the rules
RECURSIVE checkTypeRefInRules(_, _, _, _)
checkTypeRefInRules(K, C, type, loc) ==
    IF type.kind = "entity-ref"
    THEN IF ~MapHas(K.symbols.rules, type.name)
         THEN undefinedName(K, C, "type", type.name, loc)
         ELSE C
    ELSE IF type.kind \in {"optional", "set", "list"} THEN checkTypeRefInRules(K, C, type.inner, loc)
    ELSE C

RECURSIVE checkTypeRef(_, _, _, _)
checkTypeRef(K, C, type, loc) ==
    IF type.kind = "entity-ref"
    THEN IF ~MapHas(K.symbols.types, type.name)
         THEN undefinedName(K, C, "type", type.name, loc)
         ELSE C
    ELSE IF type.kind \in {"optional", "set", "list"} THEN checkTypeRef(K, C, type.inner, loc)
    ELSE C    \* primitive, enum: always valid

RECURSIVE checkFieldTypes(_, _, _)
checkFieldTypes(K, C, fields) ==
    IF fields = <<>> THEN C
    ELSE Then(checkTypeRef(K, C, Head(fields).type, Head(fields).loc), LAMBDA C1 :
           checkFieldTypes(K, C1, Tail(fields)))

\* if (!this.symbols.types.has(name)) this.error(..., `undefined entity '${name}'`, ...)
checkEntityExists(K, C, name, loc) ==
    IF ~MapHas(K.symbols.types, name) THEN undefinedName(K, C, "entity", name, loc) ELSE C

ValuesOf(pairs) == [i \in 1..Len(pairs) |-> pairs[i].value]

\* rightFlag with a fault: the right operand is checked with the flag as received
rightFlagAsReceived(op, skipEnumLikeIdents) == skipEnumLikeIdents

\* the flag the right operand of a binary expression is checked with: for
\* equality comparisons and 'in', the right side is likely enum value(s)
rightFlag(op, skipEnumLikeIdents) ==
    IF op = "=" \/ op = "!=" \/ op = "in" THEN TRUE ELSE skipEnumLikeIdents

RECURSIVE checkExprInContext(_, _, _, _), checkExprs(_, _, _, _)

checkExprs(K, C, exprs, skipEnumLikeIdents) ==
    IF exprs = <<>> THEN C
    ELSE Then(checkExprInContext(K, C, Head(exprs), skipEnumLikeIdents), LAMBDA C1 :
           checkExprs(K, C1, Tail(exprs), skipEnumLikeIdents))

\* the pool with the bound variables after the type names
allNamesTypesFirst(K, C) == MapKeys(K.symbols.types) \o C.bound

\* const allNames = [...this.boundVars, ...this.symbols.types.keys()]
allNames(K, C) == C.bound \o MapKeys(K.symbols.types)

checkExprInContext(K, C, expr, skipEnumLikeIdents) ==
    IF expr.kind = "ident"
    THEN \* V: C with the examination of this identifier added to the trace
         Then([C EXCEPT !.visits = Append(@, [name |-> expr.name, loc |-> expr.loc,
                                              bound |-> C.bound,
                                              skip |-> skipEnumLikeIdents])], LAMBDA V :
           IF /\ ~SeqHas(V.bound, expr.name)
              /\ ~MapHas(K.symbols.types, expr.name)
              /\ ~isBuiltin(expr.name)
              /\ ~(skipEnumLikeIdents /\ looksLikeEnumValue(expr.name))
           THEN error(K, V, expr.loc, "undefined identifier '" \o expr.name \o "'",
                      findSimilar(expr.name, allNames(K, V)))
           ELSE V)
    ELSE IF expr.kind = "field-access"
    THEN checkExprInContext(K, C, expr.object, skipEnumLikeIdents)
    ELSE IF expr.kind = "call"
    THEN Then(checkExprInContext(K, C, expr.callee, skipEnumLikeIdents), LAMBDA C1 :
           \* isArrayLiteral: the arguments of an array literal are checked as enum values
           checkExprs(K, C1, expr.args,
               skipEnumLikeIdents \/ (expr.callee.kind = "ident" /\ expr.callee.name = "__array")))
    ELSE IF expr.kind = "binary"
    THEN Then(checkExprInContext(K, C, expr.left, skipEnumLikeIdents), LAMBDA C1 :
           checkExprInContext(K, C1, expr.right, rightFlag(expr.op, skipEnumLikeIdents)))
    ELSE IF expr.kind = "unary"
    THEN checkExprInContext(K, C, expr.operand, skipEnumLikeIdents)
    ELSE IF expr.kind = "lambda"
    THEN Then(checkExprInContext(K, [C EXCEPT !.bound = SetAdd(@, expr.param)],
                                 expr.body, skipEnumLikeIdents), LAMBDA C1 :
           \* hadVar: the parameter was bound before the lambda
           IF ~SeqHas(C.bound, expr.param)
           THEN [C1 EXCEPT !.bound = SetDelete(@, expr.param)]
           ELSE C1)
    ELSE IF expr.kind = "join-lookup"
    THEN Then(checkEntityExists(K, C, expr.entity, expr.loc), LAMBDA C1 :
           checkExprs(K, C1, ValuesOf(expr.keys), skipEnumLikeIdents))
    ELSE IF expr.kind = "entity-created"
    THEN Then(checkEntityExists(K, C, expr.entity, expr.loc), LAMBDA C1 :
           checkExprs(K, C1, ValuesOf(expr.fields), TRUE))
    ELSE C    \* literals are always valid

RECURSIVE checkRelationships(_, _, _)
checkRelationships(K, C, rels) ==
    IF rels = <<>> THEN C
    ELSE Then(checkEntityExists(K, C, Head(rels).target, Head(rels).loc), LAMBDA C1 :
           checkRelationships(K, C1, Tail(rels)))

RECURSIVE checkProjections(_, _, _, _)

\* checkProjections with a fault: the filter is checked with the flag off
checkProjectionsFlagOff(K, C, typeInfo, projs) ==
    IF projs = <<>> THEN C
    ELSE Then(IF ~MapHas(typeInfo.relationships, Head(projs).source)
              THEN error(K, C, Head(projs).loc,
                         "undefined relationship '" \o Head(projs).source \o "'",
                         findSimilar(Head(projs).source, MapKeys(typeInfo.relationships)))
              ELSE C, LAMBDA C1 :
         Then(checkExprInContext(K, C1, Head(projs).filter, FALSE), LAMBDA C2 :
           checkProjections(K, C2, typeInfo, Tail(projs))))

checkProjections(K, C, typeInfo, projs) ==
    IF projs = <<>> THEN C
    ELSE Then(IF ~MapHas(typeInfo.relationships, Head(projs).source)
              THEN error(K, C, Head(projs).loc,
                         "undefined relationship '" \o Head(projs).source \o "'",
                         findSimilar(Head(projs).source, MapKeys(typeInfo.relationships)))
              ELSE C, LAMBDA C1 :
         Then(checkExprInContext(K, C1, Head(projs).filter, TRUE), LAMBDA C2 :
           checkProjections(K, C2, typeInfo, Tail(projs))))

ExprsOf(ders) == [i \in 1..Len(ders) |-> ders[i].expr]

checkEntityMembers(K, C, entity) ==
    IF ~MapHas(K.symbols.types, entity.name) THEN C
    ELSE Then(checkFieldTypes(K, C, entity.fields), LAMBDA C1 :
         Then(checkRelationships(K, C1, entity.relationships), LAMBDA C2 :
         \* for projections and derived, the entity members are the scope
         Then([C2 EXCEPT !.bound =
                  SetAddAll(<<>>, MapKeys(getAllMembers(MapGet(K.symbols.types, entity.name))))],
              LAMBDA C3 :
         Then(checkProjections(K, C3, MapGet(K.symbols.types, entity.name),
                               entity.projections), LAMBDA C4 :
         Then(checkExprs(K, C4, ExprsOf(entity.derived), TRUE), LAMBDA C5 :
           [C5 EXCEPT !.bound = <<>>])))))

NamesOf(params) == [i \in 1..Len(params) |-> params[i].name]

\* checkTrigger with a fault: the value of a state-change trigger is checked
\* with the flag off
checkTriggerFlagOff(K, C, trigger) ==
    IF trigger.kind = "stimulus"
    THEN [C EXCEPT !.bound = SetAddAll(@, NamesOf(trigger.params))]
    ELSE IF trigger.kind = "state-change"
    THEN Then(IF ~MapHas(K.symbols.types, trigger.entity)
              THEN undefinedName(K, C, "entity", trigger.entity, trigger.loc)
              ELSE IF ~MapHas(getAllMembers(MapGet(K.symbols.types, trigger.entity)),
                              trigger.field)
              THEN error(K, C, trigger.loc,
                         "undefined field '" \o trigger.field \o "' on entity '"
                           \o trigger.entity \o "'",
                         findSimilar(trigger.field,
                             MapKeys(getAllMembers(MapGet(K.symbols.types, trigger.entity)))))
              ELSE C, LAMBDA C1 :
           checkExprInContext(K, [C1 EXCEPT !.bound = SetAdd(@, trigger.binding)],
                              trigger.value, FALSE))
    ELSE IF trigger.kind = "created"
    THEN Then(checkEntityExists(K, C, trigger.entity, trigger.loc), LAMBDA C1 :
           [C1 EXCEPT !.bound = SetAdd(@, trigger.binding)])
    ELSE IF trigger.kind \in {"temporal", "derived"}
    THEN checkExprInContext(K, C, trigger.expr, FALSE)
    ELSE \* chained: params (plain names) become bound
         [C EXCEPT !.bound = SetAddAll(@, trigger.params)]

checkTrigger(K, C, trigger) ==
    IF trigger.kind = "stimulus"
    THEN [C EXCEPT !.bound = SetAddAll(@, NamesOf(trigger.params))]
    ELSE IF trigger.kind = "state-change"
    THEN Then(IF ~MapHas(K.symbols.types, trigger.entity)
              THEN undefinedName(K, C, "entity", trigger.entity, trigger.loc)
              ELSE IF ~MapHas(getAllMembers(MapGet(K.symbols.types, trigger.entity)),
                              trigger.field)
              THEN error(K, C, trigger.loc,
                         "undefined field '" \o trigger.field \o "' on entity '"
                           \o trigger.entity \o "'",
                         findSimilar(trigger.field,
                             MapKeys(getAllMembers(MapGet(K.symbols.types, trigger.entity)))))
              ELSE C, LAMBDA C1 :
           checkExprInContext(K, [C1 EXCEPT !.bound = SetAdd(@, trigger.binding)],
                              trigger.value, TRUE))
    ELSE IF trigger.kind = "created"
    THEN Then(checkEntityExists(K, C, trigger.entity, trigger.loc), LAMBDA C1 :
           [C1 EXCEPT !.bound = SetAdd(@, trigger.binding)])
    ELSE IF trigger.kind \in {"temporal", "derived"}
    THEN checkExprInContext(K, C, trigger.expr, FALSE)
    ELSE \* chained: params (plain names) become bound
         [C EXCEPT !.bound = SetAddAll(@, trigger.params)]

\* checkLets with a fault: the name is added before its expression is checked
RECURSIVE checkLetsBindsFirst(_, _, _)
checkLetsBindsFirst(K, C, lets) ==
    IF lets = <<>> THEN C
    ELSE Then(checkExprInContext(K, [C EXCEPT !.bound = SetAdd(@, Head(lets).name)],
                                 Head(lets).expr, FALSE), LAMBDA C1 :
           checkLetsBindsFirst(K, C1, Tail(lets)))

RECURSIVE checkLets(_, _, _)
checkLets(K, C, lets) ==
    IF lets = <<>> THEN C
    ELSE Then(checkExprInContext(K, C, Head(lets).expr, FALSE), LAMBDA C1 :
           checkLets(K, [C1 EXCEPT !.bound = SetAdd(@, Head(lets).name)], Tail(lets)))

\* checkRule with a fault: boundVars is not cleared
checkRuleKeepsBound(K, C, rule) ==
    Then(checkTrigger(K, C, rule.trigger), LAMBDA C1 :
    Then(checkLets(K, C1, rule.lets), LAMBDA C2 :
      checkExprs(K, C2, rule.requires \o rule.ensures, FALSE)))

checkRule(K, C, rule) ==
    Then(checkTrigger(K, [C EXCEPT !.bound = <<>>], rule.trigger), LAMBDA C1 :
    Then(checkLets(K, C1, rule.lets), LAMBDA C2 :
    Then(checkExprs(K, C2, rule.requires, FALSE), LAMBDA C3 :
      checkExprs(K, C3, rule.ensures, FALSE))))

\* the items checkReferences walks, in its order: every entity, the fields of
\* every value type, the fields of every external entity, every rule
Items(kind, nodes) == [i \in 1..Len(nodes) |-> [kind |-> kind, node |-> nodes[i]]]

referenceItems(file) ==
    Items("entity", file.entities) \o Items("value", file.values)
      \o Items("external", file.externals) \o Items("rule", file.rules)

\* one iteration of one of the four loops of checkReferences
checkReferenceItem(K, C, item) ==
    IF item.kind = "entity" THEN checkEntityMembers(K, C, item.node)
    ELSE IF item.kind = "rule" THEN checkRule(K, C, item.node)
    ELSE checkFieldTypes(K, C, item.node.fields)

Checker(syms, filename) == [symbols |-> syms, filename |-> filename]

(***************************************************************************)
(* Enum checker (checks/enums.ts).  D is its diagnostics array, carried in *)
(* a record so that error() serves both checkers.                          *)
(***************************************************************************)
JoinWith(sep, strs) ==
    LET RECURSIVE join(_)
        join(i) == IF i > Len(strs) THEN ""
                   ELSE IF i = Len(strs) THEN strs[i]
                   ELSE strs[i] \o sep \o join(i + 1)
    IN  join(1)

invalidEnumValue(valueName, fieldName, enumValues) ==
    "invalid enum value '" \o valueName \o "' for field '" \o fieldName
      \o "' (expected: " \o JoinWith(" | ", enumValues) \o ")"

\* typeInfo.fields.get(fieldName)?.enumValues, <<>> when there is none
enumValuesOf(typeInfo, fieldName) ==
    IF MapHas(typeInfo.fields, fieldName) THEN MapGet(typeInfo.fields, fieldName).enumValues
    ELSE <<>>

\* this.error(value.loc..., `invalid enum value ...`, suggestion)
reportInvalidEnumValue(K, D, value, fieldName, enumValues, suggestion) ==
    error(K, D, value.loc, invalidEnumValue(value.name, fieldName, enumValues), suggestion)

\* checkAssignedValue with a fault: a value is reported only when a member of
\* the enum is similar to it
checkAssignedValueIfSimilar(K, D, ev, fieldName, value) ==
    IF ev = <<>> THEN D
    ELSE IF /\ value.kind = "ident" /\ ~SeqHas(ev[1], value.name)
            /\ findSimilar(value.name, ev[1]) # <<>>
    THEN reportInvalidEnumValue(K, D, value, fieldName, ev[1], findSimilar(value.name, ev[1]))
    ELSE D

\* checkEnumAssignment from fieldInfo on; ev is fieldInfo?.enumValues
checkAssignedValue(K, D, ev, fieldName, value) ==
    IF ev = <<>> THEN D                           \* not an enum field
    ELSE IF value.kind = "ident" /\ ~SeqHas(ev[1], value.name)
    THEN reportInvalidEnumValue(K, D, value, fieldName, ev[1], findSimilar(value.name, ev[1]))
    ELSE D

checkEnumAssignment(K, D, entityName, fieldName, value, loc) ==
    IF ~MapHas(K.symbols.types, entityName) THEN D     \* reported by reference check
    ELSE checkAssignedValue(K, D, enumValuesOf(MapGet(K.symbols.types, entityName), fieldName),
                            fieldName, value)

\* the declared type an expression denotes: a bare identifier naming a type
resolveEntityType(K, expr) ==
    IF expr.kind = "ident" /\ MapHas(K.symbols.types, expr.name)
    THEN <<MapGet(K.symbols.types, expr.name)>>
    ELSE <<>>

\* checkComparedValue with a fault: a lowercase value is reported as well
checkComparedValueAnyCase(K, D, ev, fieldName, valueSide) ==
    IF ev # <<>> /\ ~SeqHas(ev[1], valueSide.name)
    THEN reportInvalidEnumValue(K, D, valueSide, fieldName, ev[1],
                                findSimilar(valueSide.name, ev[1]))
    ELSE D

\* checkEnumComparison from fieldInfo on; ev is fieldInfo?.enumValues
checkComparedValue(K, D, ev, fieldName, valueSide) ==
    IF ev # <<>> /\ ~SeqHas(ev[1], valueSide.name)
    THEN \* not a variable reference (heuristic: lowercase = variable)
         IF /\ SubSeq(valueSide.name, 1, 1) = toLowerCase(SubSeq(valueSide.name, 1, 1))
            /\ SubSeq(valueSide.name, 1, 1) \in LowerSet
         THEN D
         ELSE reportInvalidEnumValue(K, D, valueSide, fieldName, ev[1],
                                     findSimilar(valueSide.name, ev[1]))
    ELSE D

checkEnumComparison(K, D, fieldSide, valueSide) ==
    IF /\ fieldSide.kind = "field-access"
       /\ valueSide.kind = "ident"
       /\ resolveEntityType(K, fieldSide.object) # <<>>
    THEN checkComparedValue(K, D,
             enumValuesOf(resolveEntityType(K, fieldSide.object)[1], fieldSide.field),
             fieldSide.field, valueSide)
    ELSE D

RECURSIVE checkExprForEnums(_, _, _, _), checkExprsForEnums(_, _, _, _)
RECURSIVE checkCreatedFields(_, _, _, _, _)

checkExprsForEnums(K, D, exprs, contextEntity) ==
    IF exprs = <<>> THEN D
    ELSE Then(checkExprForEnums(K, D, Head(exprs), contextEntity), LAMBDA D1 :
           checkExprsForEnums(K, D1, Tail(exprs), contextEntity))

\* checkCreatedField with a fault: the value is reported whether or not a
\* member is similar to it
checkCreatedFieldAlways(K, D, ev, fieldAssign) ==
    IF ev # <<>> /\ fieldAssign.value.kind = "ident" /\ ~SeqHas(ev[1], fieldAssign.value.name)
    THEN reportInvalidEnumValue(K, D, fieldAssign.value, fieldAssign.field, ev[1],
                                findSimilar(fieldAssign.value.name, ev[1]))
    ELSE D

\* the check of one initialiser of an entity-created expression; ev is
\* fieldInfo?.enumValues
checkCreatedField(K, D, ev, fieldAssign) ==
    IF /\ ev # <<>>
       /\ fieldAssign.value.kind = "ident"
       /\ ~SeqHas(ev[1], fieldAssign.value.name)
       \* if (suggestion): only what looks like a typo'd enum value is flagged
       /\ findSimilar(fieldAssign.value.name, ev[1]) # <<>>
       /\ findSimilar(fieldAssign.value.name, ev[1]) # <<"">>
    THEN reportInvalidEnumValue(K, D, fieldAssign.value, fieldAssign.field, ev[1],
                                findSimilar(fieldAssign.value.name, ev[1]))
    ELSE D

\* the loop over the initialisers of an entity-created expression
checkCreatedFields(K, D, typeInfo, fields, contextEntity) ==
    IF fields = <<>> THEN D
    ELSE Then(checkCreatedField(K, D, enumValuesOf(typeInfo, Head(fields).field), Head(fields)),
              LAMBDA D1 :
         Then(checkExprForEnums(K, D1, Head(fields).value, contextEntity), LAMBDA D2 :
           checkCreatedFields(K, D2, typeInfo, Tail(fields), contextEntity)))

checkExprForEnums(K, D, expr, contextEntity) ==
    IF expr.kind = "binary"
    THEN Then(IF expr.op = "=" \/ expr.op = "!="
              THEN Then(checkEnumComparison(K, D, expr.left, expr.right), LAMBDA D0 :
                     checkEnumComparison(K, D0, expr.right, expr.left))
              ELSE D, LAMBDA D1 :
         Then(checkExprForEnums(K, D1, expr.left, contextEntity), LAMBDA D2 :
           checkExprForEnums(K, D2, expr.right, contextEntity)))
    ELSE IF expr.kind = "unary" THEN checkExprForEnums(K, D, expr.operand, contextEntity)
    ELSE IF expr.kind = "call"
    THEN Then(checkExprForEnums(K, D, expr.callee, contextEntity), LAMBDA D1 :
           checkExprsForEnums(K, D1, expr.args, contextEntity))
    ELSE IF expr.kind = "lambda" THEN checkExprForEnums(K, D, expr.body, contextEntity)
    ELSE IF expr.kind = "field-access" THEN checkExprForEnums(K, D, expr.object, contextEntity)
    ELSE IF expr.kind = "entity-created"
    THEN IF MapHas(K.symbols.types, expr.entity)
         THEN checkCreatedFields(K, D, MapGet(K.symbols.types, expr.entity), expr.fields,
                                 contextEntity)
         ELSE D
    ELSE IF expr.kind = "join-lookup"
    THEN checkExprsForEnums(K, D, ValuesOf(expr.keys), contextEntity)
    ELSE D    \* literals and identifiers don't need recursive checking

\* EnumChecker.checkRule
checkRuleEnums(K, D, rule) ==
    Then(IF rule.trigger.kind = "state-change"
         THEN checkEnumAssignment(K, D, rule.trigger.entity, rule.trigger.field,
                                  rule.trigger.value, rule.trigger.loc)
         ELSE D, LAMBDA D1 :
    Then(checkExprsForEnums(K, D1, rule.requires, "null"), LAMBDA D2 :
      checkExprsForEnums(K, D2, rule.ensures, "null")))

RECURSIVE checkRulesEnums(_, _, _)
checkRulesEnums(K, D, rules) ==
    IF rules = <<>> THEN D
    ELSE Then(checkRuleEnums(K, D, Head(rules)), LAMBDA D1 :
           checkRulesEnums(K, D1, Tail(rules)))

RECURSIVE checkDerivedEnums(_, _, _)
checkDerivedEnums(K, D, entities) ==
    IF entities = <<>> THEN D
    ELSE Then(checkExprsForEnums(K, D, ExprsOf(Head(entities).derived), Head(entities).name),
              LAMBDA D1 :
           checkDerivedEnums(K, D1, Tail(entities)))

\* the rules, then the derived values of the entities
checkEnums(file, syms, filename) ==
    Then(checkRulesEnums(Checker(syms, filename), [diags |-> <<>>], file.rules), LAMBDA D1 :
      checkDerivedEnums(Checker(syms, filename), D1, file.entities)).diags

(***************************************************************************)
(* CLI (cli.ts)                                                            *)
(***************************************************************************)
\* formatDiagnostic with a fault: the column is left out
formatDiagnosticNoColumn(d) ==
    d.file \o ":" \o ToString(d.line) \o ": " \o d.message
      \o (IF d.suggestion # <<>> THEN " (did you mean '" \o d.suggestion[1] \o "'?)" ELSE "")

formatDiagnostic(d) ==
    LET suggestion == IF d.suggestion # <<>> /\ d.suggestion[1] # ""
                      THEN " (did you mean '" \o d.suggestion[1] \o "'?)"
                      ELSE ""
    IN  d.file \o ":" \o ToString(d.line) \o ":" \o ToString(d.col) \o ": " \o d.message
          \o suggestion

(***************************************************************************)
(* Input files                                                             *)
(***************************************************************************)
FileName == "foo.allium"

\* the message of the Error readFileSync throws
ReadError == "ENOENT: no such file or directory, open 'foo.allium'"

\* the example of the README of allium-check
ReadmeExample ==
    "entity User {\n"
 \o "    email: Email\n"
 \o "    status: active | suspended\n"
 \o "    profile: Proflie          -- typo in type\n"
 \o "}\n"
 \o "\n"
 \o "entity Post {\n"
 \o "    author: Usr               -- typo in entity reference\n"
 \o "}\n"
 \o "\n"
 \o "rule SuspendUser {\n"
 \o "    when: AdminSuspends(admin, user)\n"
 \o "\n"
 \o "    requires: usr.exists      -- typo in variable\n"
 \o "    ensures: user.status = suspendd   -- typo in enum value\n"
 \o "}\n"

\* a valid file: two entities and one rule
ValidSpec ==
    "entity User { email: Email  status: active | suspended }\n"
 \o "entity Post { author: User }\n"
 \o "rule SuspendUser {\n"
 \o "  when: AdminSuspends(user)\n"
 \o "  ensures: user.status = suspended\n"
 \o "}\n"

\* an entity reference with a close typo, on line 8
TypoOnLine8 ==
    "entity User {\n"
 \o "  email: Email\n"
 \o "  status: active | suspended\n"
 \o "}\n"
 \o "-- posts\n"
 \o "\n"
 \o "\n"
 \o "entity Post { author: Usr }\n"

\* every kind of declaration, member, trigger and expression; declared and
\* undeclared names at every place a type or entity name is used
FullSpec ==
    "external entity Mailer { address: Email }\n"
 \o "value Money { amount: Decimal currency: usd | eur  owner: Usr }\n"
 \o "entity User {\n"
 \o "  email: Email\n"
 \o "  status: active | suspended\n"
 \o "  profile: Proflie\n"
 \o "  tags: Set<Tagg>\n"
 \o "  mails: List<Mailer>\n"
 \o "  boss: User?\n"
 \o "  sessions: Session for this user\n"
 \o "  posts: Poast for this author\n"
 \o "  live: sessions with state = opened\n"
 \o "  dead: sesions with state = Closed\n"
 \o "  is_ok: status = active and count > 0\n"
 \o "}\n"
 \o "entity Session { state: opened | closed  owner: User }\n"
 \o "default max_age = 30\n"
 \o "rule Suspend {\n"
 \o "  when: u: User.status becomes suspendd\n"
 \o "  let s = Session{owner: u}\n"
 \o "  let t = Sesion{u}\n"
 \o "  requires: s.state = opened\n"
 \o "  ensures: User.status = Suspendd\n"
 \o "  ensures: Audit.created(kind: susp, who: u)\n"
 \o "}\n"
 \o "rule Renamed { when: m: Usr.email becomes 'x'  ensures: m.ok }\n"
 \o "rule Moved { when: m: Session.owners becomes null  ensures: m.ok }\n"
 \o "rule Made {\n"
 \o "  when: p: Poast.created\n"
 \o "  ensures: Session.created(state: opend, owner: p)\n"
 \o "}\n"
 \o "rule Seen { when: q: Session.created  requires: q.state in [opened, closed] }\n"
 \o "rule Old {\n"
 \o "  when: s.age > now - config/max_age\n"
 \o "  requires: items.any(i => i.ok) or not usr.ok\n"
 \o "}\n"
 \o "deferred Billing see billing spec\n"
 \o "open question \"what about teams?\"\n"

\* a string that is not closed: the opening quote, then the end of the text
UnterminatedString ==
    "entity X {\n"
 \o "  a: \"abc"

\* a string that is not closed and ends in a backslash
TrailingBackslash ==
    "entity X {\n"
 \o "  a: 'ab\\"

\* a comment that no newline ends
UnterminatedComment == "entity X { -- no end"

\* one name declared three times, once in each kind, the entity first; and a
\* name declared twice in one kind
DuplicateNames ==
    "entity Account { owner: String }\n"
 \o "value Account { iban: String }\n"
 \o "external entity Account { id: String }\n"
 \o "value Money { amount: Decimal }\n"
 \o "value Money { cents: Integer }\n"

\* let bindings that use their own name, an earlier one and a later one, and
\* a requires clause written before them
LetChain ==
    "rule Chain {\n"
 \o "  when: Start(u)\n"
 \o "  requires: b.ok\n"
 \o "  let a = a.next\n"
 \o "  let b = a.next\n"
 \o "  let c = b.plus(c, u)\n"
 \o "  ensures: c.done\n"
 \o "}\n"

\* state-change triggers: a member of the enum, a value that is neither a
\* member nor close to one, a capitalized value, a field that is no enum, an
\* undeclared entity, a field the entity does not have, a derived member, and
\* a value that is no identifier
Triggers ==
    "entity Door { state: opened | closed  label: String  shut: state = closed }\n"
 \o "rule A { when: d: Door.state becomes closed  ensures: d.ok }\n"
 \o "rule B { when: d: Door.state becomes zzzzzz  ensures: d.ok }\n"
 \o "rule C { when: d: Door.state becomes Closed  ensures: d.ok }\n"
 \o "rule D { when: d: Door.label becomes closed  ensures: d.ok }\n"
 \o "rule E { when: d: Dor.state becomes ajar  ensures: d.ok }\n"
 \o "rule F { when: d: Door.stat becomes ajar  ensures: d.ok }\n"
 \o "rule G { when: d: Door.shut becomes true  ensures: d.ok }\n"
 \o "rule H { when: d: Door.state becomes 'closed'  ensures: d.ok }\n"

\* comparisons of an enum field with a value: in either order, with a value
\* close to a member, far from every member, lowercase, and a member; with an
\* object that is a variable, a type name in another case, a field that is no
\* enum, another operator; nested in other expressions, in a derived value,
\* and in the initialisers of a declared and of an undeclared entity
Comparisons ==
    "entity User {\n"
 \o "  status: active | suspended\n"
 \o "  name: String\n"
 \o "  bad: User.status = Suspnded\n"
 \o "  fine: User.status = active\n"
 \o "}\n"
 \o "rule R {\n"
 \o "  when: Go(u)\n"
 \o "  requires: User.status = Suspendd\n"
 \o "  requires: Zzzzzz != User.status\n"
 \o "  requires: User.status = suspendd\n"
 \o "  requires: u.status = Suspendd\n"
 \o "  requires: user.status = Suspendd\n"
 \o "  requires: User.name = Suspendd\n"
 \o "  requires: User.status != suspended\n"
 \o "  requires: User.status < Suspendd\n"
 \o "  ensures: not (User.status = Wrong) and u.f(User.status != Worse)\n"
 \o "  ensures: Ghost.created(a: User.status = Hidden)\n"
 \o "  ensures: User.created(name: User.status = Seen)\n"
 \o "}\n"

\* entity-created expressions: an initialiser close to a member, a variable
\* far from every member, a member in another case, a member, a capitalized
\* name far from every member, a name two edits from a member, a field that
\* is no enum, and an undeclared entity
Creations ==
    "entity Door { state: opened | closed  label: String }\n"
 \o "rule M {\n"
 \o "  when: Go(u)\n"
 \o "  ensures: Door.created(state: opend, label: u)\n"
 \o "  ensures: Door.created(state: u)\n"
 \o "  ensures: Door.created(state: CLOSED)\n"
 \o "  ensures: Door.created(state: closed)\n"
 \o "  ensures: Door.created(state: Zzzzzzz)\n"
 \o "  ensures: Door.created(state: lose)\n"
 \o "  ensures: Door.created(label: opend)\n"
 \o "  ensures: Dor.created(state: opend)\n"
 \o "}\n"

\* optional fields of an undeclared type, a declared type and a primitive
\* type, in the body of an entity, a value type and an external entity
OptionalFields ==
    "entity Team { lead: Ghost?  peer: Team?  since: Timestamp? }\n"
 \o "value Pair { lead: Ghost?  peer: Team?  since: Timestamp? }\n"
 \o "external entity Feed { lead: Ghost?  peer: Team?  since: Timestamp? }\n"

\* rules fired by an expression: comparisons with `now` as an operand, inside
\* an arithmetic operand, inside a call argument, a unary operand, a lambda
\* body and a join-lookup value, without `now`, and an equality with `now`
Temporals ==
    "rule A { when: t.due <= now  ensures: t.ok }\n"
 \o "rule B { when: now + 1 > t.due  ensures: t.ok }\n"
 \o "rule C { when: t.due < t.f(now)  ensures: t.ok }\n"
 \o "rule D { when: t.due >= -now  ensures: t.ok }\n"
 \o "rule E { when: t.due < (x => now)  ensures: t.ok }\n"
 \o "rule F { when: t.due > T{k: now}  ensures: t.ok }\n"
 \o "rule G { when: t.due < t.end  ensures: t.ok }\n"
 \o "rule H { when: t.due = now  ensures: t.ok }\n"
 \o "rule I { when: now.due < 3  ensures: t.ok }\n"

\* expressions mixing the operators of every level, with and without grouping
\* parentheses, and operators of one level chained
Precedence ==
    "rule P {\n  when: Go(a, b, c, d)\n"
 \o "  requires: a or b and c = d + a * -b.f\n"
 \o "  requires: a - b - c\n"
 \o "  requires: a < b < c\n"
 \o "  requires: (a or b) and c\n"
 \o "  requires: a * (b + c)\n"
 \o "  requires: not a = b\n"
 \o "  requires: a in b with c\n"
 \o "  requires: -(a + b) * c\n"
 \o "  requires: a and b or c and d\n"
 \o "  requires: a / b * c + d != a\n"
 \o "  ensures: a.f(b or c, d + a)\n}\n"

\* undefined identifiers close to a bound variable and to a type name at once:
\* at equal distance, with the type nearer, with the variable nearer, and
\* close to nothing
Suggestions ==
    "entity User { name: String }\nentity Order { total: Integer }\n"
 \o "rule R {\n  when: Go(user, users, order)\n"
 \o "  requires: usr.name\n  requires: Usr.name\n  requires: Orde.total\n"
 \o "  requires: Zzzzzz.a\n}\n"
 \o "rule S {\n  when: Go(users, orders)\n"
 \o "  requires: usr.name\n  requires: Ordrs.total\n}\n"

\* rules whose clauses are written out of order: ensures and requires before
\* the trigger and the let they use, and two when clauses in one rule
ClauseOrder ==
    "rule Late {\n"
 \o "  ensures: p.done and q.done and z.done\n"
 \o "  requires: z.ok\n"
 \o "  when: First(p)\n"
 \o "  let z = q.next\n"
 \o "  when: Second(q)\n"
 \o "}\n"
 \o "rule Two {\n"
 \o "  when: t.due <= now\n"
 \o "  requires: t.ok and T{k: t}\n"
 \o "  when: Go(t)\n"
 \o "}\n"

\* an entity whose projection filter and derived values name members,
\* lowercase names that are nothing, a lambda parameter, and capitalized names
\* that are nothing
Members ==
    "entity Cart {\n"
 \o "  items: Item for this cart\n"
 \o "  total: Integer\n"
 \o "  pending_items: items with state = pending and not archived\n"
 \o "  big: total > limit and items.any(i => i.price > cap) or -total < floor(base, Rate)\n"
 \o "  odd: Wrong + total_ = [a_b, Cd]\n"
 \o "}\n"
 \o "entity Item { state: pending | done  price: Integer }\n"

\* a file that enters every loop of the parser: declarations, fields,
\* members, enum values, clauses, parameters, the operators of every level,
\* arguments, lookup keys, initialisers, array elements and free text
Loops ==
    "value V { a: Set<A>  b: List<B?>  c: x | y }\n"
 \o "entity E { r: T for this e  p: r with a = b  d: a + 1  f: G? }\n"
 \o "default m = 3\n"
 \o "rule R {\n  when: s: E.c becomes x\n  let k = T{a, b: 1}\n"
 \o "  requires: a.f(b, c) or g(d) and not h < -1 * [i, j] / 2\n"
 \o "  ensures: E.created(a: b, c: x => x)\n}\n"
 \o "rule S { when: Go(a, b?)  ensures: a in b }\n"
 \o "deferred D some words\n"
 \o "open question what now\n"

Programs ==
    {ReadmeExample, ValidSpec, TypoOnLine8, FullSpec, UnterminatedString,
     TrailingBackslash, UnterminatedComment, DuplicateNames, LetChain, Triggers,
     Comparisons, Creations, OptionalFields, Temporals,
     Precedence, Suggestions, ClauseOrder,
     Members, Loops}

\* the files the runs read: the programs, and every prefix of ValidSpec and
\* of Loops (a file cut off anywhere), which is how the syntax errors arise
Sources ==
    Programs \cup { SubSeq(ValidSpec, 1, n) : n \in 0..Len(ValidSpec) }
             \cup { SubSeq(Loops, 1, n) : n \in 0..Len(Loops) }

(***************************************************************************)
(* The run of the CLI: program.action of cli.ts, with check inlined.       *)
(***************************************************************************)
\* the AlliumFile under construction, before parse returns
NoAst     == [type |-> "none", file |-> EmptyFile]
NoSymbols == [types |-> EmptyMap, defaults |-> EmptyMap, rules |-> EmptyMap]

\* everything but the input: the state before the action callback runs
Fresh ==
    /\ pos = 0 /\ line = 1 /\ col = 1 /\ tokens = <<>>
    /\ cursor = 0 /\ ast = NoAst /\ symbols = NoSymbols
    /\ boundVars = <<>> /\ refIdx = 0 /\ refDiags = <<>> /\ visits = <<>>
    /\ enumDiags = <<>> /\ diagnostics = <<>>
    /\ stderr = <<>> /\ exitCode = -1 /\ calls = {}
    /\ simResult = <<>>
    /\ refExpr = <<>> /\ refSkip = FALSE /\ refBefore = <<>>

Init ==
    /\ pc = "start"
    /\ readOk \in BOOLEAN
    /\ source \in Sources
    /\ Fresh
    /\ simName = "" /\ simCands = <<>>

\* const source = readFileSync(file, 'utf-8'), and the entry into check and lex
ReadFile ==
    /\ pc = "start" /\ readOk
    /\ pc' = "lex"
    /\ calls' = calls \cup {"check", "lex"}
    /\ UNCHANGED <<readOk, source, lexVars, cursor, ast, symbols, boundVars, refIdx, refDiags,
                   visits, enumDiags, diagnostics, stderr, exitCode, simVars, refVars>>

\* readFileSync throws: catch (err) { console.error(`error: ...`); process.exit(1) }
ReadFileFails ==
    /\ pc = "start" /\ ~readOk
    /\ stderr' = Append(stderr, "error: " \o ReadError)
    /\ exitCode' = 1
    /\ pc' = "exit"
    /\ UNCHANGED <<readOk, source, lexVars, cursor, ast, symbols, boundVars, refIdx, refDiags,
                   visits, enumDiags, diagnostics, calls, simVars, refVars>>

\* one iteration of the main loop of lex
LexStep ==
    /\ pc = "lex" /\ pos < Len(source)
    /\ LET it == lexIteration(source, Cursor(pos, line, col)) IN
        /\ pos' = it.cur.pos /\ line' = it.cur.line /\ col' = it.cur.col
        /\ tokens' = tokens \o it.toks
    /\ UNCHANGED <<pc, readOk, source, cursor, ast, symbols, boundVars, refIdx, refDiags, visits,
                   enumDiags, diagnostics, stderr, exitCode, calls, simVars, refVars>>

\* LexEof with a fault: the tokens are returned without the eof token
LexEofOmitted ==
    /\ pc = "lex" /\ pos >= Len(source)
    /\ pc' = "parse"
    /\ UNCHANGED <<readOk, source, lexVars, cursor, ast, symbols, boundVars, refIdx, refDiags,
                   visits, enumDiags, diagnostics, stderr, exitCode, calls, simVars, refVars>>

\* the loop is over: tokens.push({ type: 'eof', ... }); return tokens
LexEof ==
    /\ pc = "lex" /\ pos >= Len(source)
    /\ tokens' = Append(tokens, Token("eof", "", Loc(line, col)))
    /\ pc' = "parse"
    /\ UNCHANGED <<readOk, source, pos, line, col, cursor, ast, symbols, boundVars, refIdx, refDiags,
                   visits, enumDiags, diagnostics, stderr, exitCode, calls, simVars, refVars>>

\* const ast = parse(tokens, filename): one iteration of the loop of parseFile;
\* an error thrown in it is caught by Parser.parse, which returns the diagnostic
ParseStep ==
    /\ pc = "parse" /\ ~at(tokens, cursor, "eof")
    /\ LET r == parseFileIteration(tokens, cursor, ast.file) IN
        /\ cursor' = r.pos
        /\ IF r.ok
           THEN /\ ast' = [ast EXCEPT !.file = r.val]
                /\ pc' = pc
           ELSE /\ ast' = [type |-> "error", diagnostic |-> ParseDiagnostic(tokens, FileName, r)]
                /\ pc' = "parsed"
    /\ calls' = calls \cup {"parse"}
    /\ UNCHANGED <<readOk, source, lexVars, symbols, boundVars, refIdx, refDiags, visits,
                   enumDiags, diagnostics, stderr, exitCode, simVars, refVars>>

\* the cursor is at eof: parseFile returns the file and Parser.parse { type: 'ok', file }
ParseReturn ==
    /\ pc = "parse" /\ at(tokens, cursor, "eof")
    /\ ast' = [type |-> "ok", file |-> ast.file]
    /\ calls' = calls \cup {"parse"}
    /\ pc' = "parsed"
    /\ UNCHANGED <<readOk, source, lexVars, cursor, symbols, boundVars, refIdx, refDiags,
                   visits, enumDiags, diagnostics, stderr, exitCode, simVars, refVars>>

\* ReturnParseError with a fault: the diagnostic is kept but check does not
\* return, and goes on to the semantic passes
ReturnParseErrorGoesOn ==
    /\ pc = "parsed" /\ ast.type = "error"
    /\ diagnostics' = <<ast.diagnostic>>
    /\ calls' = calls \cup {"buildSymbols", "checkReferences"}
    /\ pc' = "refs"
    /\ UNCHANGED <<readOk, source, lexVars, cursor, ast, symbols, boundVars, refIdx, refDiags, visits,
                   enumDiags, stderr, exitCode, simVars, refVars>>

\* if (ast.type === 'error') return [ast.diagnostic]
ReturnParseError ==
    /\ pc = "parsed" /\ ast.type = "error"
    /\ diagnostics' = <<ast.diagnostic>>
    /\ pc' = "report"
    /\ UNCHANGED <<readOk, source, lexVars, cursor, ast, symbols, boundVars, refIdx, refDiags, visits,
                   enumDiags, stderr, exitCode, calls, simVars, refVars>>

\* const symbols = buildSymbols(ast.file), and the entry into checkReferences
BuildSymbols ==
    /\ pc = "parsed" /\ ast.type # "error"
    /\ symbols' = buildSymbols(ast.file)
    /\ calls' = calls \cup {"buildSymbols", "checkReferences"}
    /\ pc' = "refs"
    /\ UNCHANGED <<readOk, source, lexVars, cursor, ast, boundVars, refIdx, refDiags, visits,
                   enumDiags, diagnostics, stderr, exitCode, simVars, refVars>>

\* one iteration of a loop of checkReferences
CheckReferencesStep ==
    /\ pc = "refs" /\ refIdx < Len(referenceItems(ast.file))
    /\ LET C == checkReferenceItem(Checker(symbols, FileName),
                                   [bound |-> boundVars, diags |-> refDiags, visits |-> visits],
                                   referenceItems(ast.file)[refIdx + 1])
       IN  /\ boundVars' = C.bound
           /\ refDiags' = C.diags
           /\ visits' = C.visits
    /\ refIdx' = refIdx + 1
    /\ UNCHANGED <<pc, readOk, source, lexVars, cursor, ast, symbols, enumDiags, diagnostics, stderr,
                   exitCode, calls, simVars, refVars>>

\* diagnostics.push(...checkReferences(...)), and the entry into checkEnums
CheckReferencesReturn ==
    /\ pc = "refs" /\ refIdx >= Len(referenceItems(ast.file))
    /\ diagnostics' = diagnostics \o refDiags
    /\ calls' = calls \cup {"checkEnums"}
    /\ pc' = "enums"
    /\ UNCHANGED <<readOk, source, lexVars, cursor, ast, symbols, boundVars, refIdx, refDiags, visits,
                   enumDiags, stderr, exitCode, simVars, refVars>>

\* CheckEnums with a fault: diagnostics.unshift in place of diagnostics.push
CheckEnumsFirst ==
    /\ pc = "enums"
    /\ LET ds == checkEnums(ast.file, symbols, FileName) IN
        /\ enumDiags' = ds
        /\ diagnostics' = ds \o diagnostics
    /\ pc' = "report"
    /\ UNCHANGED <<readOk, source, lexVars, cursor, ast, symbols, boundVars, refIdx, refDiags, visits,
                   stderr, exitCode, calls, simVars, refVars>>

\* diagnostics.push(...checkEnums(...)); return diagnostics
CheckEnums ==
    /\ pc = "enums"
    /\ LET ds == checkEnums(ast.file, symbols, FileName) IN
        /\ enumDiags' = ds
        /\ diagnostics' = diagnostics \o ds
    /\ pc' = "report"
    /\ UNCHANGED <<readOk, source, lexVars, cursor, ast, symbols, boundVars, refIdx, refDiags, visits,
                   stderr, exitCode, calls, simVars, refVars>>

\* PrintDiagnostics with a fault: the diagnostics are printed and process.exit(1)
\* is missing
PrintDiagnosticsExitsZero ==
    /\ pc = "report" /\ Len(diagnostics) > 0
    /\ stderr' = stderr \o [i \in 1..Len(diagnostics) |-> formatDiagnostic(diagnostics[i])]
    /\ exitCode' = 0
    /\ pc' = "exit"
    /\ UNCHANGED <<readOk, source, lexVars, cursor, ast, symbols, boundVars, refIdx, refDiags, visits,
                   enumDiags, diagnostics, calls, simVars, refVars>>

\* if (diagnostics.length > 0) { for (d of diagnostics) console.error(...); process.exit(1) }
PrintDiagnostics ==
    /\ pc = "report" /\ Len(diagnostics) > 0
    /\ stderr' = stderr \o [i \in 1..Len(diagnostics) |-> formatDiagnostic(diagnostics[i])]
    /\ exitCode' = 1
    /\ pc' = "exit"
    /\ UNCHANGED <<readOk, source, lexVars, cursor, ast, symbols, boundVars, refIdx, refDiags, visits,
                   enumDiags, diagnostics, calls, simVars, refVars>>

\* no diagnostics: the action returns and the process ends with code 0
ExitClean ==
    /\ pc = "report" /\ Len(diagnostics) = 0
    /\ exitCode' = 0
    /\ pc' = "exit"
    /\ UNCHANGED <<readOk, source, lexVars, cursor, ast, symbols, boundVars, refIdx, refDiags, visits,
                   enumDiags, diagnostics, stderr, calls, simVars, refVars>>

Next ==
    \/ ReadFile \/ ReadFileFails
    \/ LexStep \/ LexEof
    \/ ParseStep \/ ParseReturn \/ ReturnParseError
    \/ BuildSymbols \/ CheckReferencesStep \/ CheckReferencesReturn
    \/ CheckEnums
    \/ PrintDiagnostics \/ ExitClean

Spec == Init /\ [][Next]_vars

(***************************************************************************)
(* lex on its own: lex(source) for every string over LexChars of at most   *)
(* MaxSrcLen characters.                                                   *)
(***************************************************************************)
MaxSrcLen == 4

\* a letter, a digit, a newline, the comment and arrow character, a quote,
\* the escape character, and a character lex knows nothing about
LexChars == {"a", "1", "\n", "-", "\"", "\\", "#"}

RECURSIVE StringsUpTo(_, _)
StringsUpTo(chars, n) ==
    IF n = 0 THEN {""}
    ELSE LET S == StringsUpTo(chars, n - 1) IN S \cup { s \o c : s \in S, c \in chars }

InitLex ==
    /\ pc = "call"
    /\ readOk = TRUE
    /\ source = ""
    /\ Fresh
    /\ simName = "" /\ simCands = <<>>

\* lex(source) is called
LexCall ==
    /\ pc = "call"
    /\ source' \in StringsUpTo(LexChars, MaxSrcLen)
    /\ pc' = "lex"
    /\ UNCHANGED <<readOk, lexVars, cursor, ast, symbols, boundVars, refIdx, refDiags,
                   visits, enumDiags, diagnostics, stderr, exitCode, calls, simVars, refVars>>

NextLex == LexCall \/ LexStep \/ LexEof

SpecLex == InitLex /\ [][NextLex]_vars

(***************************************************************************)
(* findSimilar on its own: findSimilar(name, candidates) with the default  *)
(* maxDistance, for every name of at most MaxNameLen characters and every  *)
(* list of at most MaxCands candidates of at most MaxCandLen characters.   *)
(***************************************************************************)
MaxNameLen == 3
MaxCandLen == 2
MaxCands   == 2

NameChars == {"a", "b"}
CandChars == {"A", "b"}

RECURSIVE SeqsUpTo(_, _)
SeqsUpTo(S, n) ==
    IF n = 0 THEN {<<>>}
    ELSE LET Q == SeqsUpTo(S, n - 1) IN Q \cup { Append(q, x) : q \in Q, x \in S }

InitSim ==
    /\ pc = "sim"
    /\ readOk = TRUE
    /\ source = ""
    /\ Fresh
    /\ simName \in StringsUpTo(NameChars, MaxNameLen)
    /\ simCands \in SeqsUpTo(StringsUpTo(CandChars, MaxCandLen), MaxCands)

\* simResult = findSimilar(simName, simCands)
FindSimilarCall ==
    /\ pc = "sim"
    /\ simResult' = findSimilar(simName, simCands)
    /\ pc' = "simdone"
    /\ UNCHANGED <<readOk, source, lexVars, cursor, ast, symbols, boundVars, refIdx, refDiags,
                   visits, enumDiags, diagnostics, stderr, exitCode, calls, simName, simCands,
                   refVars>>

NextSim == FindSimilarCall

SpecSim == InitSim /\ [][NextSim]_vars

(***************************************************************************)
(* checkExprInContext on its own: checkExprInContext(expr, skip) for every *)
(* expression of at most MaxNodes nodes over RefNames, either flag, and    *)
(* the bound sets RefBounds, against a symbol table whose one type is User.*)
(***************************************************************************)
MaxNodes == 4

\* a name that can be bound and looks like an enum value, the type, a config
\* reference, a lowercase name with a digit, and the builtin that is the
\* callee of an array literal
RefNames == {"x", "User", "config/a", "a1", "__array"}

RefOps == {"=", "!=", "in", "and"}

RefBounds == {<<>>, <<"x">>, <<"a1">>}

RefSymbols ==
    buildSymbols([EmptyFile EXCEPT !.externals =
        <<[kind |-> "external", name |-> "User", fields |-> <<>>, loc |-> Loc(1, 1)]>>])

\* the expressions of exactly n nodes
RECURSIVE ExprsOfSize(_)
ExprsOfSize(n) ==
    IF n = 1 THEN { Ident(name, Loc(1, 1)) : name \in RefNames }
    ELSE { [kind |-> "lambda", param |-> "x", body |-> b, loc |-> Loc(1, 1)] :
             b \in ExprsOfSize(n - 1) }
         \cup { [kind |-> "field-access", object |-> o, field |-> "f", loc |-> Loc(1, 1)] :
                  o \in ExprsOfSize(n - 1) }
         \cup { [kind |-> "unary", op |-> "not", operand |-> o, loc |-> Loc(1, 1)] :
                  o \in ExprsOfSize(n - 1) }
         \cup UNION { { Binary(op, l, r, Loc(1, 1)) :
                          op \in RefOps, l \in ExprsOfSize(i), r \in ExprsOfSize(n - 1 - i) }
                      \cup { [kind |-> "call", callee |-> l, args |-> <<r>>, loc |-> Loc(1, 1)] :
                               l \in ExprsOfSize(i), r \in ExprsOfSize(n - 1 - i) } :
                      i \in 1..(n - 2) }

InitRef ==
    /\ pc = "call"
    /\ readOk = TRUE
    /\ source = ""
    /\ Fresh
    /\ simName = "" /\ simCands = <<>>

\* the arguments and the receiver of the call: a checker over RefSymbols whose
\* boundVars is one of RefBounds
CheckExprArgs ==
    /\ pc = "call"
    /\ refExpr' \in UNION { ExprsOfSize(n) : n \in 1..MaxNodes }
    /\ refSkip' \in BOOLEAN
    /\ refBefore' \in RefBounds
    /\ boundVars' = refBefore'
    /\ symbols' = RefSymbols
    /\ pc' = "ref"
    /\ UNCHANGED <<readOk, source, lexVars, cursor, ast, refIdx, refDiags, visits, enumDiags,
                   diagnostics, stderr, exitCode, calls, simVars>>

\* checker.checkExprInContext(refExpr, refSkip)
CheckExprCall ==
    /\ pc = "ref"
    /\ LET C == checkExprInContext(Checker(symbols, FileName),
                                   [bound |-> boundVars, diags |-> refDiags, visits |-> visits],
                                   refExpr, refSkip)
       IN  /\ boundVars' = C.bound
           /\ refDiags' = C.diags
           /\ visits' = C.visits
    /\ pc' = "refdone"
    /\ UNCHANGED <<readOk, source, lexVars, cursor, ast, symbols, refIdx, enumDiags, diagnostics,
                   stderr, exitCode, calls, simVars, refVars>>

NextRef == CheckExprArgs \/ CheckExprCall

SpecRef == InitRef /\ [][NextRef]_vars

(***************************************************************************)
(* Properties of a run of the CLI (Spec)                                   *)
(***************************************************************************)
SemanticPasses == {"buildSymbols", "checkReferences", "checkEnums"}

\* C1: when parse reports an error, check returns exactly one diagnostic, the
\* parser's, and buildSymbols, checkReferences and checkEnums neither run nor
\* contribute a diagnostic.
C1_ParseErrorOnly ==
    ast.type = "error" =>
        /\ calls \cap SemanticPasses = {}
        /\ symbols = NoSymbols /\ refIdx = 0 /\ refDiags = <<>> /\ enumDiags = <<>>
        /\ pc \in {"report", "exit"} => diagnostics = <<ast.diagnostic>>

\* a file cut off in the middle of a declaration has been checked and reported
C1_Witness ==
    /\ pc = "exit" /\ ast.type = "error" /\ Len(tokens) > 3
    /\ stderr = <<formatDiagnostic(ast.diagnostic)>>

\* C2: the process exits with 0 exactly when the file was read and check
\* returned no diagnostic; it exits with 1 after printing every diagnostic when
\* there is one, and after printing `error: <message>` when the read failed.
C2_ExitCode ==
    /\ pc # "exit" => exitCode = -1
    /\ pc = "exit" =>
        /\ exitCode \in {0, 1}
        /\ exitCode = 0 <=> (readOk /\ diagnostics = <<>>)
        /\ (readOk /\ diagnostics # <<>>) =>
              /\ exitCode = 1
              /\ stderr = [i \in 1..Len(diagnostics) |-> formatDiagnostic(diagnostics[i])]
        /\ ~readOk => (exitCode = 1 /\ stderr = <<"error: " \o ReadError>>)

\* the valid file has been checked: nothing printed, exit code 0
C2_Witness ==
    pc = "exit" /\ readOk /\ source = ValidSpec /\ diagnostics = <<>> /\ exitCode = 0

IsPrefix(s, t) == Len(s) <= Len(t) /\ SubSeq(t, 1, Len(s)) = s

\* C3: the three lists only ever grow at their end, and what check returns
\* after a successful parse is the reference checker's diagnostics, in the
\* order emitted, followed by the enum checker's, in the order emitted.
C3_RefsBeforeEnums ==
    [][ /\ IsPrefix(refDiags, refDiags')
        /\ IsPrefix(enumDiags, enumDiags')
        /\ IsPrefix(diagnostics, diagnostics')
        /\ (pc' \in {"report", "exit"} /\ ast'.type = "ok") =>
              diagnostics' = refDiags' \o enumDiags' ]_vars

\* both passes have emitted several diagnostics and check has returned
C3_Witness ==
    /\ pc = "report" /\ ast.type = "ok"
    /\ Len(refDiags) >= 2 /\ Len(enumDiags) >= 2

\* C4: for the rule of the README example, whose `ensures` compares
\* user.status with the non-member suspendd, check returns the diagnostic
\* `invalid enum value 'suspendd' for field 'status' (expected: active |
\* suspended)` with the suggestion suspended.
C4_InvalidEnumValueReported ==
    (pc = "exit" /\ readOk /\ source = ReadmeExample) =>
        \E i \in 1..Len(diagnostics) :
            /\ diagnostics[i].message =
                 "invalid enum value 'suspendd' for field 'status' (expected: active | suspended)"
            /\ diagnostics[i].suggestion = <<"suspended">>

\* the token that starts at a line and column has the value v
TokenAt(l, c, v) ==
    \E k \in 1..Len(tokens) : tokens[k].loc = Loc(l, c) /\ tokens[k].value = v

\* C5: a diagnostic `undefined type '<name>'` is located where the type
\* identifier <name> starts: 8:23 for `entity Post { author: Usr }` on line 8,
\* column 14 for `    profile: Proflie`.
C5_LocatedAtTypeIdentifier ==
    /\ \A i \in 1..Len(diagnostics) : \A j \in 1..Len(tokens) :
          diagnostics[i].message = "undefined type '" \o tokens[j].value \o "'" =>
              TokenAt(diagnostics[i].line, diagnostics[i].col, tokens[j].value)
    /\ (pc = "exit" /\ readOk /\ source = TypoOnLine8) =>
          \E i \in 1..Len(diagnostics) : diagnostics[i].line = 8 /\ diagnostics[i].col = 23
    /\ (pc = "exit" /\ readOk /\ source = ReadmeExample) =>
          \E i \in 1..Len(diagnostics) : diagnostics[i].line = 4 /\ diagnostics[i].col = 14

\* C6: for `entity Post { author: Usr }` with User declared, check returns the
\* message `undefined entity 'Usr'` with the suggestion User.
C6_UndefinedEntityUsr ==
    (pc = "exit" /\ readOk /\ source = TypoOnLine8) =>
        \E i \in 1..Len(diagnostics) :
            /\ diagnostics[i].message = "undefined entity 'Usr'"
            /\ diagnostics[i].suggestion = <<"User">>

\* the text has a character at line l, column c (lines end at "\n", which is
\* the last character of its line)
PositionExists(src, l, c) ==
    LET NL     == { i \in 1..Len(src) : SubSeq(src, i, i) = "\n" }
        before == IF l = 1 THEN {0}
                  ELSE { j \in NL : Cardinality({ k \in NL : k <= j }) = l - 1 }
    IN  /\ l >= 1 /\ c >= 1
        /\ \E b \in before : b + c <= Len(src) /\ \A k \in NL : ~(b < k /\ k < b + c)

C8_NoUndefinedForDeclared ==
    \A k \in 1..Len(symbols.types) : \A i \in 1..Len(refDiags) :
        /\ refDiags[i].message # "undefined type '" \o symbols.types[k].key \o "'"
        /\ refDiags[i].message # "undefined entity '" \o symbols.types[k].key \o "'"

\* the references of a file that uses declared and undeclared names as field
\* type, wrapper inner type, relationship target, trigger entity, join-lookup
\* and entity-created have all been checked
C8_Witness ==
    /\ pc = "enums" /\ source = FullSpec
    /\ MapKeys(symbols.types) = <<"Mailer", "Money", "User", "Session">>
    /\ \E i \in 1..Len(refDiags) : refDiags[i].message = "undefined entity 'Usr'"
    /\ \E i \in 1..Len(refDiags) : refDiags[i].message = "undefined type 'Usr'"

(***************************************************************************)
(* Properties of findSimilar (SpecSim)                                     *)
(***************************************************************************)
\* the two characters are the same letter, whatever their case
SameLetter(c, d) ==
    \/ c = d
    \/ \E k \in 1..26 : {c, d} = {SubSeq(LowerChars, k, k), SubSeq(UpperChars, k, k)}

\* a can be turned into b by at most k insertions, deletions and substitutions
\* of one character, letters compared without regard to case
RECURSIVE WithinDistance(_, _, _)
WithinDistance(a, b, k) ==
    IF k < 0 THEN FALSE
    ELSE IF a = "" THEN Len(b) <= k
    ELSE IF b = "" THEN Len(a) <= k
    ELSE LET ta == SubSeq(a, 2, Len(a))
             tb == SubSeq(b, 2, Len(b))
         IN  IF SameLetter(SubSeq(a, 1, 1), SubSeq(b, 1, 1))
             THEN WithinDistance(ta, tb, k)
             ELSE \/ WithinDistance(ta, b, k - 1)
                  \/ WithinDistance(a, tb, k - 1)
                  \/ WithinDistance(ta, tb, k - 1)

\* C9: what findSimilar returns with the default threshold is one of the
\* candidates, at case-insensitive edit distance at most 2 from the name; when
\* no candidate is within distance 2 it returns nothing.
C9_SuggestionWithinTwo ==
    pc = "simdone" =>
        /\ simResult # <<>> =>
              /\ SeqHas(simCands, simResult[1])
              /\ WithinDistance(simName, simResult[1], 2)
        /\ (\A i \in 1..Len(simCands) : ~WithinDistance(simName, simCands[i], 2)) =>
              simResult = <<>>

\* findSimilar has returned the second of two candidates, which is at
\* distance exactly 2 and differs from the name in case
C9_Witness ==
    /\ pc = "simdone" /\ Len(simCands) = 2 /\ simResult = <<simCands[2]>>
    /\ simCands[1] # simCands[2]
    /\ ~WithinDistance(simName, simResult[1], 1)
    /\ \E i \in 1..Len(simName) : SubSeq(simName, i, i) = "a"
    /\ \E i \in 1..Len(simResult[1]) : SubSeq(simResult[1], i, i) = "A"

(***************************************************************************)
(* Properties of lex (SpecLex)                                             *)
(***************************************************************************)
\* C10: for every source text lex returns: every iteration of its loop moves
\* pos forward and is entered with pos inside the text, so there are at most
\* Len(source) of them; and the tokens it returns end with an eof token and
\* hold no other eof token.
C10_LexTotal ==
    [][ /\ (pc = "lex" /\ pc' = "lex") => (pos < pos' /\ pos < Len(source))
        /\ pc' = "parse" =>
              /\ tokens' # <<>>
              /\ tokens'[Len(tokens')].type = "eof"
              /\ \A i \in 1..(Len(tokens') - 1) : tokens'[i].type # "eof" ]_vars

\* lex has returned for a text with an unknown character and a string that
\* ends, unterminated, in a backslash
C10_Witness ==
    /\ pc = "parse" /\ source = "#\"a\\"
    /\ Len(tokens) = 2 /\ tokens[1].type = "string"

(***************************************************************************)
(* C11: token locations                                                    *)
(***************************************************************************)
LocLeq(a, b) == a.line < b.line \/ (a.line = b.line /\ a.col <= b.col)

\* the 1-based indexes of the newline characters among the characters of src
\* consumed between the cursors p and q
NewlinesIn(src, p, q) == { i \in (p + 1)..q : i <= Len(src) /\ SubSeq(src, i, i) = "\n" }

Greatest(S) == CHOOSE i \in S : \A j \in S : j <= i

Declarations(file) == file.externals \o file.values \o file.entities

Range(q) == { q[i] : i \in 1..Len(q) }

Homonyms(file, name) == { d \in Range(Declarations(file)) : d.name = name }

\* buildSymbols walks the externals, then the value types, then the entities
KindRank(kind) == IF kind = "external" THEN 1 ELSE IF kind = "value" THEN 2 ELSE 3

\* C13 as stated: of several top-level type declarations of one name, in any
\* mix of kinds, the symbol table holds the one that appears last in the
\* source file.
C13_LastInSourceWins ==
    "buildSymbols" \in calls =>
        \A i \in 1..Len(symbols.types) :
            \A d \in Homonyms(ast.file, symbols.types[i].key) :
                LocLeq(d.loc, symbols.types[i].value.node.loc)

\* C13: the symbol table holds exactly one entry for each declared type name,
\* and no diagnostic is produced for a name declared more than once; the
\* entry is that of an entity when an entity has the name, else that of a
\* value type when a value type has it, else that of an external entity, and
\* among the declarations of that kind that of the last in the source file.
C13_LastProcessedWins ==
    "buildSymbols" \in calls =>
        /\ \A i, j \in 1..Len(symbols.types) :
               symbols.types[i].key = symbols.types[j].key => i = j
        /\ Range(MapKeys(symbols.types)) = { d.name : d \in Range(Declarations(ast.file)) }
        /\ \A i \in 1..Len(symbols.types) :
             /\ symbols.types[i].value.node \in Homonyms(ast.file, symbols.types[i].key)
             /\ symbols.types[i].value.kind = symbols.types[i].value.node.kind
             /\ \A d \in Homonyms(ast.file, symbols.types[i].key) :
                  \/ KindRank(d.kind) < KindRank(symbols.types[i].value.kind)
                  \/ /\ d.kind = symbols.types[i].value.kind
                     /\ LocLeq(d.loc, symbols.types[i].value.node.loc)
        /\ (pc = "refs" /\ refIdx = 0) => (diagnostics = <<>> /\ refDiags = <<>>)

\* Account is the entity of line 1, though a value type and an external entity
\* of that name follow it; Money is the value type of line 5
C13_Witness ==
    /\ pc = "exit" /\ source = DuplicateNames
    /\ MapKeys(symbols.types) = <<"Account", "Money">>
    /\ MapGet(symbols.types, "Account").kind = "entity"
    /\ MapGet(symbols.types, "Account").node.loc = Loc(1, 1)
    /\ MapGet(symbols.types, "Money").node.loc = Loc(5, 1)
    /\ diagnostics = <<>>

\* the index of the first c in s at or after i, 0 when there is none
RECURSIVE IndexOf(_, _, _)
IndexOf(s, c, i) ==
    IF i > Len(s) THEN 0 ELSE IF SubSeq(s, i, i) = c THEN i ELSE IndexOf(s, c, i + 1)

\* \d+
AllDigits(s) == Len(s) >= 1 /\ \A i \in 1..Len(s) : SubSeq(s, i, i) \in DigitSet

\* ^[^:]+:\d+:\d+: .+$
MatchesLocatedLine(s) ==
    LET a == IndexOf(s, ":", 1)
        b == IndexOf(s, ":", a + 1)
        c == IndexOf(s, ":", b + 1)
    IN  /\ a > 1 /\ b > a /\ c > b
        /\ AllDigits(SubSeq(s, a + 1, b - 1))
        /\ AllDigits(SubSeq(s, b + 1, c - 1))
        /\ Len(s) >= c + 2
        /\ SubSeq(s, c + 1, c + 1) = " "
        /\ \A i \in (c + 2)..Len(s) : SubSeq(s, i, i) # "\n"

EndsWith(s, t) == Len(t) <= Len(s) /\ SubSeq(s, Len(s) - Len(t) + 1, Len(s)) = t

Contains(s, t) == \E i \in 1..(Len(s) - Len(t) + 1) : SubSeq(s, i, i + Len(t) - 1) = t

\* C14: every diagnostic is printed on a line of its own as
\* <file>:<line>:<col>: <message>, a line matching ^[^:]+:\d+:\d+: .+$ that
\* carries the diagnostic's own file, line, column and message, and the line
\* ends with ` (did you mean '<suggestion>'?)` exactly when the diagnostic
\* carries a suggestion.
C14_DiagnosticLineFormat ==
    (pc = "exit" /\ readOk) =>
        /\ Len(stderr) = Len(diagnostics)
        /\ \A i \in 1..Len(diagnostics) :
             /\ MatchesLocatedLine(stderr[i])
             /\ IsPrefix(diagnostics[i].file \o ":" \o ToString(diagnostics[i].line) \o ":"
                           \o ToString(diagnostics[i].col) \o ": " \o diagnostics[i].message,
                         stderr[i])
             /\ IF diagnostics[i].suggestion # <<>>
                THEN EndsWith(stderr[i], diagnostics[i].message \o " (did you mean '"
                                           \o diagnostics[i].suggestion[1] \o "'?)")
                ELSE /\ EndsWith(stderr[i], ": " \o diagnostics[i].message)
                     /\ ~Contains(stderr[i], "did you mean")

\* the README example has been reported: a line with a suggestion and a line
\* without one
C14_Witness ==
    /\ pc = "exit" /\ readOk /\ source = ReadmeExample
    /\ Len(stderr) = Len(diagnostics)
    /\ \E i, j \in 1..Len(diagnostics) :
         /\ diagnostics[i].suggestion # <<>> /\ Contains(stderr[i], "did you mean")
         /\ diagnostics[j].suggestion = <<>> /\ ~Contains(stderr[j], "did you mean")

\* the names a trigger binds
TriggerNames(t) ==
    IF t.kind = "stimulus" THEN Range(NamesOf(t.params))
    ELSE IF t.kind \in {"state-change", "created"} THEN {t.binding}
    ELSE IF t.kind = "chained" THEN Range(t.params)
    ELSE {}

\* the names of the file that are lambda parameters: those followed by =>
LambdaParams == { tokens[i].value : i \in { j \in 1..(Len(tokens) - 1) : tokens[j + 1].type = "=>" } }

\* the names an item of checkReferences brings into scope itself
OwnNames(item) ==
    IF item.kind = "rule"
    THEN TriggerNames(item.node.trigger) \cup { item.node.lets[i].name : i \in 1..Len(item.node.lets) }
    ELSE IF item.kind = "entity"
    THEN Range(MapKeys(getAllMembers(MapGet(symbols.types, item.node.name))))
    ELSE {}

\* C15: the bound set is emptied when a rule starts and when the projection
\* and derived phase of an entity starts and ends: checking a rule or an entity
\* gives the result it gives from an empty bound set whatever the item before
\* it left bound, an entity leaves nothing bound, and every name bound where
\* an identifier is examined is a trigger or let name of the rule being
\* checked, a member of the entity being checked, or a lambda parameter.
C15_ScopesDoNotLeak ==
    [][ (pc = "refs" /\ pc' = "refs") =>
          LET item == referenceItems(ast.file)[refIdx + 1]
              fromEmpty == checkReferenceItem(Checker(symbols, FileName),
                               [bound |-> <<>>, diags |-> refDiags, visits |-> visits], item)
          IN  /\ item.kind \in {"rule", "entity"} =>
                    /\ boundVars' = fromEmpty.bound
                    /\ refDiags' = fromEmpty.diags
                    /\ visits' = fromEmpty.visits
              /\ item.kind = "entity" => boundVars' = <<>>
              /\ item.kind = "rule" => Range(boundVars') \subseteq OwnNames(item)
              /\ \A i \in (Len(visits) + 1)..Len(visits') :
                    Range(visits'[i].bound) \subseteq OwnNames(item) \cup LambdaParams ]_vars

\* rule Old of the full file has been checked after rule Suspend, which bound
\* s: the s of its trigger was examined with nothing bound
C15_Witness ==
    /\ pc = "refs" /\ source = FullSpec /\ refIdx >= 1
    /\ referenceItems(ast.file)[refIdx].kind = "rule"
    /\ referenceItems(ast.file)[refIdx].node.name = "Old"
    /\ \E i, j \in 1..Len(visits) :
         /\ j < i
         /\ SeqHas(visits[j].bound, "s")
         /\ visits[i].name = "s" /\ visits[i].bound = <<>>
    /\ \E i \in 1..Len(refDiags) : refDiags[i].message = "undefined identifier 's'"

\* the index of the let binding written on a line, 0 when the line has none
LetOnLine(lets, n) ==
    IF \E k \in 1..Len(lets) : lets[k].loc.line = n
    THEN CHOOSE k \in 1..Len(lets) : lets[k].loc.line = n
    ELSE 0

\* C16: the let bindings of a rule are processed in order, each expression
\* checked without enum context before its name is added: where an identifier
\* of the expression of let j is examined the flag is off and exactly the let
\* names before j are bound, so a let name is not bound in its own expression
\* nor in an earlier let, and where an identifier of a requires or ensures
\* clause is examined every let name is bound.  (Stated for names that are not
\* also a trigger name or a lambda parameter, in files that put each let on a
\* line of its own, with no comparison in a let expression.)
C16_LetsInOrder ==
    [][ (pc = "refs" /\ pc' = "refs" /\ referenceItems(ast.file)[refIdx + 1].kind = "rule") =>
          LET rule == referenceItems(ast.file)[refIdx + 1].node IN
          \A i \in (Len(visits) + 1)..Len(visits') :
            LET j == LetOnLine(rule.lets, visits'[i].loc.line) IN
            /\ j > 0 => ~visits'[i].skip
            /\ \A k \in 1..Len(rule.lets) :
                 rule.lets[k].name \notin TriggerNames(rule.trigger) \cup LambdaParams =>
                   (SeqHas(visits'[i].bound, rule.lets[k].name) <=>
                      IF j > 0 THEN \E h \in 1..(j - 1) : rule.lets[h].name = rule.lets[k].name
                      ELSE visits'[i].loc.line # rule.trigger.loc.line) ]_vars

\* rule Chain has been checked: a was not bound in its own let and was in the
\* next; c was not bound in its own let; b was bound in the requires clause
\* written above the lets; a and c are reported, b is not
C16_Witness ==
    /\ pc = "refs" /\ source = LetChain /\ refIdx = 1
    /\ [i \in 1..Len(visits) |-> <<visits[i].name, visits[i].loc.line, visits[i].bound>>]
         = << <<"a", 4, <<"u">>>>, <<"a", 5, <<"u", "a">>>>, <<"b", 6, <<"u", "a", "b">>>>,
              <<"c", 6, <<"u", "a", "b">>>>, <<"u", 6, <<"u", "a", "b">>>>,
              <<"b", 3, <<"u", "a", "b", "c">>>>, <<"c", 7, <<"u", "a", "b", "c">>>> >>
    /\ [i \in 1..Len(refDiags) |-> refDiags[i].message]
         = <<"undefined identifier 'a'", "undefined identifier 'c'">>

\* the member names of a declaration: its fields and, for an entity, its
\* relationships, projections and derived values
NamesIn(q) == { q[i].name : i \in 1..Len(q) }

MemberNames(decl) ==
    NamesIn(decl.fields)
      \cup (IF decl.kind = "entity"
            THEN NamesIn(decl.relationships) \cup NamesIn(decl.projections)
                   \cup NamesIn(decl.derived)
            ELSE {})

\* the messages of the diagnostics added to ds after the first n, at loc
MessagesAt(ds, n, loc) ==
    { ds[i].message : i \in { k \in (n + 1)..Len(ds) : ds[k].line = loc.line /\ ds[k].col = loc.col } }

\* C19: for a state-change trigger `b: E.f becomes v`, `undefined entity 'E'`
\* is reported at the trigger exactly when E is not a declared type, and
\* `undefined field 'f' on entity 'E'` exactly when E is declared and f is not
\* one of its members; in every case b is bound from then on, and v is
\* checked with enum context and with b bound.
C19_StateChangeTrigger ==
    [][ (/\ pc = "refs" /\ pc' = "refs"
         /\ referenceItems(ast.file)[refIdx + 1].kind = "rule"
         /\ referenceItems(ast.file)[refIdx + 1].node.trigger.kind = "state-change") =>
          LET t == referenceItems(ast.file)[refIdx + 1].node.trigger
              declared == t.entity \in NamesIn(Declarations(ast.file))
          IN  /\ ("undefined entity '" \o t.entity \o "'") \in MessagesAt(refDiags', Len(refDiags), t.loc)
                    <=> ~declared
              /\ ("undefined field '" \o t.field \o "' on entity '" \o t.entity \o "'")
                      \in MessagesAt(refDiags', Len(refDiags), t.loc)
                    <=> (declared /\ t.field \notin MemberNames(MapGet(symbols.types, t.entity).node))
              /\ SeqHas(boundVars', t.binding)
              /\ \A i \in (Len(visits) + 1)..Len(visits') : SeqHas(visits'[i].bound, t.binding)
              /\ t.value.kind = "ident" =>
                    /\ Len(visits') > Len(visits)
                    /\ visits'[Len(visits) + 1] = [name |-> t.value.name, loc |-> t.value.loc,
                                                  bound |-> <<t.binding>>, skip |-> TRUE] ]_vars

\* the rules of the trigger file have been checked: only Dor is an undefined
\* entity, only stat an undefined field, and of the values only the
\* capitalized one is an undefined identifier
C19_Witness ==
    /\ pc = "refs" /\ source = Triggers /\ refIdx = Len(referenceItems(ast.file))
    /\ [i \in 1..Len(refDiags) |-> refDiags[i].message]
         = <<"undefined identifier 'Closed'", "undefined entity 'Dor'",
             "undefined field 'stat' on entity 'Door'">>
    /\ boundVars = <<"d">>

\* the fields named f of the declaration the symbol table holds for E that
\* have an enum type
EnumFields(E, f) ==
    IF ~MapHas(symbols.types, E) THEN {}
    ELSE { fld \in Range(MapGet(symbols.types, E).node.fields) :
             fld.name = f /\ fld.type.kind = "enum" }

\* C20: for the state-change trigger of a rule whose value is an identifier v,
\* whose entity E is declared and whose field f is an enum field of E, the
\* enum checker reports `invalid enum value 'v' for field 'f' (expected: ...)`
\* at v exactly when v is not among the declared members of f, whether or not
\* v is lowercase and whether or not a member is similar to it.
C20_TriggerEnumValue ==
    ("checkEnums" \in calls /\ pc \in {"report", "exit"}) =>
        \A r \in Range(ast.file.rules) :
            (r.trigger.kind = "state-change" /\ r.trigger.value.kind = "ident") =>
                \A fld \in EnumFields(r.trigger.entity, r.trigger.field) :
                    (\E m \in MessagesAt(enumDiags, 0, r.trigger.value.loc) :
                        IsPrefix("invalid enum value '" \o r.trigger.value.name \o "' for field '"
                                   \o r.trigger.field \o "' (expected: ", m))
                      <=> r.trigger.value.name \notin Range(fld.type.values)

\* the trigger file has been checked: zzzzzz, which no member resembles, and
\* the capitalized Closed are reported, the member closed is not
C20_Witness ==
    /\ pc = "exit" /\ readOk /\ source = Triggers
    /\ enumDiags =
         << [file |-> FileName, line |-> 3, col |-> 38,
             message |-> "invalid enum value 'zzzzzz' for field 'state' (expected: opened | closed)",
             suggestion |-> <<>>],
            [file |-> FileName, line |-> 4, col |-> 38,
             message |-> "invalid enum value 'Closed' for field 'state' (expected: opened | closed)",
             suggestion |-> <<"closed">>] >>

\* the expressions the enum checker reaches from an expression: the
\* initialisers of an entity-created expression only when the entity is declared
RECURSIVE Reached(_)
Reached(e) ==
    {e} \cup
    (IF e.kind = "binary" THEN Reached(e.left) \cup Reached(e.right)
     ELSE IF e.kind = "unary" THEN Reached(e.operand)
     ELSE IF e.kind = "call"
     THEN Reached(e.callee) \cup UNION { Reached(e.args[i]) : i \in 1..Len(e.args) }
     ELSE IF e.kind = "lambda" THEN Reached(e.body)
     ELSE IF e.kind = "field-access" THEN Reached(e.object)
     ELSE IF e.kind = "entity-created"
     THEN IF MapHas(symbols.types, e.entity)
          THEN UNION { Reached(e.fields[i].value) : i \in 1..Len(e.fields) }
          ELSE {}
     ELSE IF e.kind = "join-lookup"
     THEN UNION { Reached(e.keys[i].value) : i \in 1..Len(e.keys) }
     ELSE {})

\* the requires, ensures and derived expressions of the file
CheckedForEnums ==
    UNION { Range(r.requires) \cup Range(r.ensures) : r \in Range(ast.file.rules) }
      \cup UNION { { d.expr : d \in Range(e.derived) } : e \in Range(ast.file.entities) }

\* the = and != expressions the enum checker reaches
Equalities ==
    { b \in UNION { Reached(e) : e \in CheckedForEnums } :
        b.kind = "binary" /\ b.op \in {"=", "!="} }

\* v is an identifier that is no member of the enum field O.f the other
\* operand names, O a declared type, and does not start with a lowercase letter
MismatchedValue(v, o) ==
    /\ v.kind = "ident"
    /\ o.kind = "field-access" /\ o.object.kind = "ident"
    /\ o.object.name \in Range(MapKeys(symbols.types))
    /\ \E fld \in EnumFields(o.object.name, o.field) : v.name \notin Range(fld.type.values)
    /\ \A k \in 1..26 : SubSeq(v.name, 1, 1) # SubSeq(LowerChars, k, k)

\* the enum diagnostics located at an expression
EnumDiagsAt(e) ==
    { i \in 1..Len(enumDiags) :
        /\ enumDiags[i].line = e.loc.line /\ enumDiags[i].col = e.loc.col
        /\ IsPrefix("invalid enum value '", enumDiags[i].message) }

Creates ==
    { c \in UNION { Reached(e) : e \in CheckedForEnums } :
        c.kind = "entity-created" /\ MapHas(symbols.types, c.entity) }

\* C22: for an initialiser `f: v` of an entity-created expression on a declared
\* entity, with v an identifier and f an enum field whose members do not hold
\* v, the enum checker reports v exactly when some member is within
\* case-insensitive edit distance 2 of v, and the suggestion it attaches is
\* such a member; with no such member v is not reported.
C22_CreatedOnlyWithSuggestion ==
    ("checkEnums" \in calls /\ pc \in {"report", "exit"}) =>
        \A c \in Creates : \A k \in 1..Len(c.fields) :
            c.fields[k].value.kind = "ident" =>
                \A fld \in EnumFields(c.entity, c.fields[k].field) :
                    c.fields[k].value.name \notin Range(fld.type.values) =>
                        /\ EnumDiagsAt(c.fields[k].value) # {}
                             <=> \E m \in Range(fld.type.values) :
                                    WithinDistance(c.fields[k].value.name, m, 2)
                        /\ \A i \in EnumDiagsAt(c.fields[k].value) :
                             /\ enumDiags[i].suggestion # <<>>
                             /\ enumDiags[i].suggestion[1] \in Range(fld.type.values)
                             /\ WithinDistance(c.fields[k].value.name,
                                               enumDiags[i].suggestion[1], 2)
                             /\ IsPrefix("invalid enum value '" \o c.fields[k].value.name
                                           \o "' for field '" \o c.fields[k].field
                                           \o "' (expected: ", enumDiags[i].message)

\* the creation file has been checked: opend, CLOSED and lose are reported
\* with the member they resemble; u and Zzzzzzz, which resemble none, are not
C22_Witness ==
    /\ pc = "exit" /\ readOk /\ source = Creations
    /\ [i \in 1..Len(enumDiags) |-> <<enumDiags[i].line, enumDiags[i].suggestion>>]
         = << <<4, <<"opened">>>>, <<6, <<"closed">>>>, <<9, <<"closed">>>> >>

\* every expression nested in an expression, itself included
RECURSIVE SubExprs(_)
SubExprs(e) ==
    {e} \cup
    (IF e.kind = "binary" THEN SubExprs(e.left) \cup SubExprs(e.right)
     ELSE IF e.kind = "unary" THEN SubExprs(e.operand)
     ELSE IF e.kind = "call"
     THEN SubExprs(e.callee) \cup UNION { SubExprs(e.args[i]) : i \in 1..Len(e.args) }
     ELSE IF e.kind = "lambda" THEN SubExprs(e.body)
     ELSE IF e.kind = "field-access" THEN SubExprs(e.object)
     ELSE IF e.kind = "entity-created"
     THEN UNION { SubExprs(e.fields[i].value) : i \in 1..Len(e.fields) }
     ELSE IF e.kind = "join-lookup"
     THEN UNION { SubExprs(e.keys[i].value) : i \in 1..Len(e.keys) }
     ELSE {})

\* C23: no diagnostic suppresses another: an = or != expression anywhere in a
\* requires, ensures or derived expression, the initialisers of an
\* entity-created expression included, has an operand reported as an invalid
\* enum value exactly when the operand alone calls for it, whether or not the
\* entity created around it is a declared type.
C23_NoSuppression ==
    ("checkEnums" \in calls /\ pc \in {"report", "exit"}) =>
        \A b \in UNION { SubExprs(e) : e \in CheckedForEnums } :
            (b.kind = "binary" /\ b.op \in {"=", "!="}) =>
                /\ EnumDiagsAt(b.right) # {} <=> MismatchedValue(b.right, b.left)
                /\ EnumDiagsAt(b.left) # {} <=> MismatchedValue(b.left, b.right)

\* identToType: the closed list of primitive type names
PrimitiveNames ==
    {"String", "Integer", "Decimal", "Boolean", "Timestamp", "Duration", "Email", "URL"}

\* C24: a field declared `name: T?` with T a bare identifier, in the body of an
\* entity as in that of a value type or an external entity, has the type
\* optional(primitive(T)) when T is a primitive type name and
\* optional(entity-ref(T)) otherwise, and an undeclared non-primitive T is
\* reported by the reference checker as an undefined type at the field.
C24_OptionalOfBareIdentifier ==
    ast.type = "ok" =>
    \A d \in Range(Declarations(ast.file)) : \A k \in 1..Len(d.fields) :
        (d.fields[k].type.kind = "optional"
           /\ d.fields[k].type.inner.kind \in {"primitive", "entity-ref"}) =>
            /\ d.fields[k].type.inner.kind = "primitive"
                 <=> d.fields[k].type.inner.name \in PrimitiveNames
            /\ (/\ pc \in {"report", "exit"} /\ "checkReferences" \in calls
                /\ d.fields[k].type.inner.name \notin PrimitiveNames
                /\ d.fields[k].type.inner.name \notin NamesIn(Declarations(ast.file))) =>
                  ("undefined type '" \o d.fields[k].type.inner.name \o "'")
                     \in MessagesAt(refDiags, 0, d.fields[k].loc)

\* the rules whose trigger was parsed from an expression
ExprTriggered ==
    { i \in 1..Len(ast.file.rules) : ast.file.rules[i].trigger.kind \in {"temporal", "derived"} }

\* C25: a trigger parsed from an expression is temporal exactly when its
\* top-level node is a binary <, <=, > or >= and the identifier `now` occurs
\* anywhere in the expression tree, call arguments, unary operands, lambda
\* bodies and join-lookup values included.
C25_TemporalIffNowAnywhere ==
    (ast.type = "ok") =>
        \A i \in ExprTriggered :
            LET t == ast.file.rules[i].trigger
            IN  (t.kind = "temporal") <=>
                    /\ t.expr.kind = "binary"
                    /\ t.expr.op \in {"<", "<=", ">", ">="}
                    /\ \E n \in SubExprs(t.expr) : n.kind = "ident" /\ n.name = "now"

\* the level of an expression node: or, and, comparison, additive,
\* multiplicative, unary, postfix and primary
NodeLevel(e) ==
    IF e.kind = "binary"
    THEN IF e.op = "or" THEN 1
         ELSE IF e.op = "and" THEN 2
         ELSE IF e.op \in {"=", "!=", "<", "<=", ">", ">=", "in", "with"} THEN 3
         ELSE IF e.op \in {"+", "-"} THEN 4
         ELSE 5
    ELSE IF e.kind = "unary" THEN 6
    ELSE 7

\* the type of the token d places after the token at loc
TokenBy(loc, d) ==
    tokens[(CHOOSE k \in 1..Len(tokens) : tokens[k].loc = loc) + d].type

\* the expressions of the rules, nested ones included
RuleExprs ==
    UNION { SubExprs(e) :
              e \in UNION { Range(r.requires) \cup Range(r.ensures) \cup { l.expr : l \in Range(r.lets) }
                              : r \in Range(ast.file.rules) } }

\* C26: operators bind in the order or < and < comparison < additive <
\* multiplicative < unary < postfix, and operators of one level group to the
\* left: the right operand of a binary operator is of a strictly higher level
\* and the left operand of the same level or higher, unless the operand was
\* written in parentheses; the operand of a unary operator is unary or postfix.
C26_Precedence ==
    (ast.type = "ok") =>
        \A e \in RuleExprs :
            /\ (e.kind = "binary") =>
                  /\ NodeLevel(e.right) > NodeLevel(e) \/ TokenBy(e.loc, 1) = "("
                  /\ NodeLevel(e.left) >= NodeLevel(e) \/ TokenBy(e.loc, -1) = ")"
            /\ (e.kind = "unary") =>
                  NodeLevel(e.operand) >= 6 \/ TokenBy(e.loc, 1) = "("

\* the shape of an expression: operators and leaves in prefix order
RECURSIVE Shape(_)
Shape(e) ==
    IF e.kind = "binary" THEN <<e.op>> \o Shape(e.left) \o Shape(e.right)
    ELSE IF e.kind = "unary" THEN <<"unary", e.op>> \o Shape(e.operand)
    ELSE IF e.kind = "field-access" THEN <<".">> \o Shape(e.object)
    ELSE IF e.kind = "ident" THEN <<e.name>>
    ELSE <<e.kind>>

C26_Witness ==
    /\ source = Precedence /\ pc = "exit" /\ ast.type = "ok"
    /\ LET req == ast.file.rules[1].requires
       IN  /\ Len(req) = 10
           /\ Shape(req[1]) = <<"or", "a", "and", "b", "=", "c", "+", "d", "*", "a", "unary", "-", ".", "b">>
           /\ Shape(req[2]) = <<"-", "-", "a", "b", "c">>
           /\ Shape(req[3]) = <<"<", "<", "a", "b", "c">>
           /\ Shape(req[4]) = <<"and", "or", "a", "b", "c">>
           /\ Shape(req[5]) = <<"*", "a", "+", "b", "c">>
           /\ Shape(req[6]) = <<"=", "unary", "not", "a", "b">>
           /\ Shape(req[7]) = <<"with", "in", "a", "b", "c">>
           /\ Shape(req[8]) = <<"*", "unary", "-", "+", "a", "b", "c">>
           /\ Shape(req[9]) = <<"or", "and", "a", "b", "and", "c", "d">>
           /\ Shape(req[10]) = <<"!=", "+", "*", "/", "a", "b", "c", "d", "a">>

\* the least number of edits, at most 3, that turn a into b without regard to
\* case; 3 stands for every greater distance
DistanceUpTo3(a, b) ==
    IF WithinDistance(a, b, 0) THEN 0
    ELSE IF WithinDistance(a, b, 1) THEN 1
    ELSE IF WithinDistance(a, b, 2) THEN 2
    ELSE 3

\* among the names of the pool within distance 2 of name, the first of those
\* at the smallest distance; <<>> when there is none
NearestFirst(name, pool) ==
    LET near == { i \in 1..Len(pool) : DistanceUpTo3(name, pool[i]) <= 2 }
    IN  IF near = {} THEN <<>>
        ELSE <<pool[CHOOSE i \in near :
                      \A j \in near :
                         \/ DistanceUpTo3(name, pool[i]) < DistanceUpTo3(name, pool[j])
                         \/ DistanceUpTo3(name, pool[i]) = DistanceUpTo3(name, pool[j]) /\ i <= j]>>

\* C27: the suggestion of an `undefined identifier` diagnostic is, among the
\* bound variables followed by the type names, the name at the smallest
\* case-insensitive distance from the identifier, at most 2, and the first of
\* them in that order when several are as near; none when nothing is near.
\* So with user bound and User declared, usr is answered with user.
C27_NearestBoundFirst ==
    ("buildSymbols" \in calls) =>
        \A i \in 1..Len(visits) :
            \A k \in 1..Len(refDiags) :
                (/\ refDiags[k].line = visits[i].loc.line
                 /\ refDiags[k].col = visits[i].loc.col
                 /\ refDiags[k].message = "undefined identifier '" \o visits[i].name \o "'")
                => refDiags[k].suggestion
                     = NearestFirst(visits[i].name, visits[i].bound \o MapKeys(symbols.types))

\* the suggestions of the diagnostics of a line
SuggestionsOn(n) == { refDiags[k].suggestion : k \in { j \in 1..Len(refDiags) : refDiags[j].line = n } }

\* usr with user, users and User near: user; Orde with order and Order as
\* near: order; Zzzzzz: nothing; usr with users at 2 and User at 1: User
C27_Witness ==
    /\ source = Suggestions /\ pc = "exit" /\ Len(refDiags) = 6
    /\ SuggestionsOn(5) = {<<"user">>}
    /\ SuggestionsOn(6) = {<<"user">>}
    /\ SuggestionsOn(7) = {<<"order">>}
    /\ SuggestionsOn(8) = {<<>>}
    /\ SuggestionsOn(12) = {<<"User">>}
    /\ SuggestionsOn(13) = {<<"orders">>}

\* the locations of the identifier expressions of an expression, and of a
\* sequence of expressions, from left to right
RECURSIVE IdentLocs(_), IdentLocsOf(_)
IdentLocs(e) ==
    IF e.kind = "ident" THEN <<e.loc>>
    ELSE IF e.kind = "field-access" THEN IdentLocs(e.object)
    ELSE IF e.kind = "call" THEN IdentLocs(e.callee) \o IdentLocsOf(e.args)
    ELSE IF e.kind = "binary" THEN IdentLocs(e.left) \o IdentLocs(e.right)
    ELSE IF e.kind = "unary" THEN IdentLocs(e.operand)
    ELSE IF e.kind = "lambda" THEN IdentLocs(e.body)
    ELSE IF e.kind = "join-lookup" THEN IdentLocsOf([i \in 1..Len(e.keys) |-> e.keys[i].value])
    ELSE IF e.kind = "entity-created" THEN IdentLocsOf([i \in 1..Len(e.fields) |-> e.fields[i].value])
    ELSE <<>>

IdentLocsOf(es) == IF es = <<>> THEN <<>> ELSE IdentLocs(Head(es)) \o IdentLocsOf(Tail(es))

\* the expression of a trigger, if it has one
TriggerExprs(t) ==
    IF t.kind = "state-change" THEN <<t.value>>
    ELSE IF t.kind \in {"temporal", "derived"} THEN <<t.expr>>
    ELSE <<>>

\* the number of { less the number of } among the tokens a to b
BraceDepth(a, b) ==
    Cardinality({ i \in a..b : tokens[i].type = "{" })
      - Cardinality({ i \in a..b : tokens[i].type = "}" })

\* the indexes of the when tokens of the rule that starts at loc: those
\* between its { and the } that closes it
WhensOf(loc) ==
    { w \in 1..Len(tokens) :
        /\ tokens[w].type = "when"
        /\ \E n \in 1..(w - 1) :
             /\ tokens[n].loc = loc
             /\ \A j \in (n + 2)..w : BraceDepth(n + 2, j) > 0 }

\* C28: the reference checker examines the identifiers of a rule in the order
\* trigger, lets, requires, ensures, wherever the clauses are written; in a
\* requires or ensures clause the names of the trigger and of every let are
\* bound, also when the clause is written above them; and of several when
\* clauses the last one is the trigger of the rule, the only one checked and
\* the only one whose names are bound.
C28_ClauseOrderIrrelevant ==
    [][ (pc = "refs" /\ pc' = "refs" /\ referenceItems(ast.file)[refIdx + 1].kind = "rule") =>
          LET rule   == referenceItems(ast.file)[refIdx + 1].node
              before == IdentLocsOf(TriggerExprs(rule.trigger))
                          \o IdentLocsOf([i \in 1..Len(rule.lets) |-> rule.lets[i].expr])
              after  == IdentLocsOf(rule.requires \o rule.ensures)
              names  == TriggerNames(rule.trigger) \cup NamesIn(rule.lets)
          IN  /\ [i \in 1..(Len(visits') - Len(visits)) |-> visits'[Len(visits) + i].loc]
                   = before \o after
              /\ \A i \in (Len(visits) + Len(before) + 1)..Len(visits') :
                   /\ names \subseteq Range(visits'[i].bound)
                   /\ Range(visits'[i].bound) \subseteq names \cup LambdaParams
              /\ rule.trigger.loc = tokens[Greatest(WhensOf(rule.loc)) + 2].loc ]_vars

\* rule Late has been checked: the q of its let was examined first, then the
\* z of the requires clause, then the ensures clause written on line 2, with
\* q and z bound and p not; p alone is reported. Rule Two, whose first
\* trigger is an expression, comes next.
C28_Witness ==
    /\ source = ClauseOrder /\ pc = "refs" /\ refIdx = 1
    /\ Len(ast.file.rules) = 2
    /\ ast.file.rules[1].trigger.name = "Second"
    /\ ast.file.rules[2].trigger.kind = "stimulus"
    /\ [i \in 1..Len(visits) |-> visits[i].loc.line] = <<5, 3, 2, 2, 2>>
    /\ \A i \in 2..5 : Range(visits[i].bound) = {"q", "z"}
    /\ [i \in 1..Len(refDiags) |-> refDiags[i].message] = <<"undefined identifier 'p'">>

\* the 0-based index of the eof token
EofIndex == Len(tokens) - 1

\* C30: parse returns after at most as many iterations of parseFile as there
\* are tokens, with { type: 'ok', file } once the cursor is at the eof token,
\* or with { type: 'error', diagnostic }, one diagnostic located at a token;
\* the cursor never goes past the index of the eof token, and an iteration
\* that does not throw leaves the cursor further than it found it.
C30_ParseTotal ==
    [][ (pc = "parse") =>
          /\ cursor <= EofIndex /\ cursor' <= EofIndex
          /\ pc' \in {"parse", "parsed"}
          /\ (pc' = "parse") => (cursor' > cursor /\ ast'.type = "none")
          /\ (pc' = "parsed") =>
                \/ /\ ast'.type = "ok" /\ DOMAIN ast' = {"type", "file"}
                   /\ cursor' = EofIndex
                \/ /\ ast'.type = "error" /\ DOMAIN ast' = {"type", "diagnostic"}
                   /\ ast'.diagnostic.message # ""
                   /\ ast'.diagnostic.line = tokens[cursor' + 1].loc.line
                   /\ ast'.diagnostic.col = tokens[cursor' + 1].loc.col ]_vars

\* the file ends inside the initialisers of E.created( : after three
\* declarations parsed, the fourth iteration has thrown with the cursor on
\* the eof token
C30_Witness ==
    /\ pc = "parsed" /\ ast.type = "error"
    /\ \E n \in 1..Len(Loops) : source = SubSeq(Loops, 1, n)
    /\ cursor = EofIndex /\ cursor > 60
    /\ tokens[cursor].type = "("
    /\ tokens[cursor - 1].type = "created"
    /\ ast.diagnostic.message = "expected ')', got 'eof'"

(***************************************************************************)
(* Properties of checkExprInContext (SpecRef)                              *)
(***************************************************************************)
\* C12: checking a lambda leaves the bound set exactly as it was before the
\* lambda, also when the parameter shadows a bound name and when lambdas with
\* the same parameter are nested: the parameter is bound all through the body
\* and is bound afterwards only if it was bound before.
C12_LambdaRestoresBound ==
    (pc = "refdone" /\ refExpr.kind = "lambda") =>
        /\ boundVars = refBefore
        /\ SeqHas(boundVars, refExpr.param) <=> SeqHas(refBefore, refExpr.param)
        /\ \A i \in 1..Len(visits) : SeqHas(visits[i].bound, refExpr.param)

\* x => (x => x) has been checked with a1 bound: x was bound in the inner body
\* and only a1 is bound afterwards
C12_Witness ==
    /\ pc = "refdone"
    /\ refExpr.kind = "lambda" /\ refExpr.body.kind = "lambda"
    /\ refExpr.param = refExpr.body.param
    /\ refBefore = <<"a1">> /\ boundVars = <<"a1">>
    /\ Len(visits) = 1 /\ visits[1].bound = <<"a1", "x">>

\* the names C17 lists as builtin
BuiltinName(n) ==
    \/ n \in {"now", "true", "false", "null", "verify", "send", "notify", "__array"}
    \/ IsPrefix("config/", n)

\* a lowercase letter followed by lowercase letters and underscores only
LowercaseName(n) ==
    /\ n # ""
    /\ \A i \in 1..Len(n) : \E k \in 1..26 : SubSeq(n, i, i) = SubSeq(LowerChars, k, k)
                                \/ (i > 1 /\ SubSeq(n, i, i) = "_")

\* the examination of an identifier that C17 says is reported
Reported(v) ==
    /\ ~SeqHas(v.bound, v.name)
    /\ v.name \notin Range(MapKeys(symbols.types))
    /\ ~BuiltinName(v.name)
    /\ ~(v.skip /\ LowercaseName(v.name))

\* C17: an identifier expression n is reported as `undefined identifier 'n'`
\* exactly when n is not bound where it is examined, is not a key of the types
\* map, is not a builtin name (now, true, false, null, verify, send, notify,
\* __array, or a name starting with config/), and it is not the case that the
\* flag is set and n is all lowercase letters and underscores starting with a
\* letter: the diagnostics are, in order, those of the examinations that
\* satisfy the four conditions.
C17_UndefinedIdentifier ==
    pc = "refdone" =>
        [i \in 1..Len(refDiags) |-> refDiags[i].message]
          = [i \in 1..Len(SelectSeq(visits, Reported)) |->
               "undefined identifier '" \o SelectSeq(visits, Reported)[i].name \o "'"]

\* a1 = x has been checked with nothing bound: a1 is reported, x, examined
\* with the flag set, is not
C17_Witness ==
    /\ pc = "refdone" /\ refBefore = <<>> /\ ~refSkip
    /\ refExpr = Binary("=", Ident("a1", Loc(1, 1)), Ident("x", Loc(1, 1)), Loc(1, 1))
    /\ Len(visits) = 2 /\ visits[2].name = "x" /\ visits[2].skip
    /\ [i \in 1..Len(refDiags) |-> refDiags[i].message] = <<"undefined identifier 'a1'">>

\* the number of identifier expressions in an expression of ExprsOfSize
RECURSIVE IdentCount(_)
IdentCount(e) ==
    IF e.kind = "ident" THEN 1
    ELSE IF e.kind = "lambda" THEN IdentCount(e.body)
    ELSE IF e.kind = "field-access" THEN IdentCount(e.object)
    ELSE IF e.kind = "unary" THEN IdentCount(e.operand)
    ELSE IF e.kind = "binary" THEN IdentCount(e.left) + IdentCount(e.right)
    ELSE IdentCount(e.callee) + IdentCount(e.args[1])

\* C18: every identifier is examined once, and the flag is never switched off
\* on the way down: checked with the flag set, every identifier of the
\* expression is examined with it set.  Of a binary expression the left
\* operand is checked with the flag as received; the right operand with the
\* flag set when the operator is =, != or in, so that every identifier of its
\* subtree (calls, lambdas, field-access objects) is examined with it set, and
\* with the flag as received for any other operator.
C18_EnumContextPropagation ==
    pc = "refdone" =>
        /\ Len(visits) = IdentCount(refExpr)
        /\ refSkip => \A i \in 1..Len(visits) : visits[i].skip
        /\ refExpr.kind = "binary" =>
             /\ refExpr.left.kind = "ident" => visits[1].skip = refSkip
             /\ refExpr.op \in {"=", "!=", "in"} =>
                  \A i \in (IdentCount(refExpr.left) + 1)..Len(visits) : visits[i].skip
             /\ (refExpr.op \notin {"=", "!=", "in"} /\ refExpr.right.kind = "ident") =>
                  visits[Len(visits)].skip = refSkip

\* a comparison whose right operand is a field access has been checked with
\* the flag off: the left identifier was examined with it off, the object of
\* the field access with it set
C18_Witness ==
    /\ pc = "refdone" /\ ~refSkip
    /\ refExpr.kind = "binary" /\ refExpr.op = "!="
    /\ refExpr.left.kind = "ident" /\ refExpr.right.kind = "field-access"
    /\ Len(visits) = 2 /\ ~visits[1].skip /\ visits[2].skip

(***************************************************************************)
(* C29: projection filters and derived values                              *)
(***************************************************************************)
\* the declaration the symbol table holds for a name
EntryOf(name) ==
    symbols.types[CHOOSE i \in 1..Len(symbols.types) : symbols.types[i].key = name].value.node

\* C29: the projection filters and derived expressions of an entity are
\* checked, every identifier of them, with the enum flag set from the root and
\* with the member names of the symbol-table entry of the entity's name bound
\* (and the parameters of the lambdas around the identifier); so no lowercase
\* identifier (^[a-z][a-z_]*$) of a projection filter or derived expression
\* is reported as undefined.
C29_EntityExpressions ==
    [][ (pc = "refs" /\ pc' = "refs" /\ referenceItems(ast.file)[refIdx + 1].kind = "entity") =>
          LET entity  == referenceItems(ast.file)[refIdx + 1].node
              members == MemberNames(EntryOf(entity.name))
              new     == (Len(visits) + 1)..Len(visits')
          IN  /\ [i \in 1..(Len(visits') - Len(visits)) |-> visits'[Len(visits) + i].loc]
                   = IdentLocsOf([i \in 1..Len(entity.projections) |-> entity.projections[i].filter]
                                   \o [i \in 1..Len(entity.derived) |-> entity.derived[i].expr])
              /\ \A i \in new :
                   /\ visits'[i].skip
                   /\ members \subseteq Range(visits'[i].bound)
                   /\ Range(visits'[i].bound) \subseteq members \cup LambdaParams
                   /\ LowercaseName(visits'[i].name) =>
                        \A k \in (Len(refDiags) + 1)..Len(refDiags') :
                           refDiags'[k].message # "undefined identifier '" \o visits'[i].name \o "'" ]_vars

\* entity Cart has been checked: pending, archived, limit, cap, floor, base
\* total_ and a_b were examined with the flag set and are not reported; Rate,
\* Wrong and Cd are
C29_Witness ==
    /\ source = Members /\ pc = "refs" /\ refIdx = 1
    /\ {"pending", "archived", "limit", "cap", "floor", "base", "total_", "a_b", "i", "total", "items"}
          \subseteq { visits[i].name : i \in 1..Len(visits) }
    /\ \A i \in 1..Len(visits) : visits[i].skip
    /\ [k \in 1..Len(refDiags) |-> refDiags[k].message]
          = <<"undefined identifier 'Rate'", "undefined identifier 'Wrong'",
              "undefined identifier 'Cd'">>

====
